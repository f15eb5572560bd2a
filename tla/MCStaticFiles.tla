---- MODULE MCStaticFiles ----
(* An instance of StaticFiles: a directory whose index file other programs *)
(* change and precompress, asked for by both its names, and a fallback     *)
(* document, which is empty.                                               *)
EXTENDS StaticFiles

ThreadSymmetry == Permutations(Threads)

docs == <<"docs">>
page == <<"docs", "index.html">>
shell == <<"shell.html">>
away == <<"away.html">>

MCPaths == {docs, page, shell, away}
MCDirectories == {docs}
MCOutside == {away}
MCInitialSizes == (page :> 1) @@ (shell :> 0) @@ (away :> 1)
MCRewritten == {page}
MCFallback == shell
MCIndexes == <<"index.html">>
MCPrecompressed == <<"gzip">>

Get(path) == [method |-> "GET", wellFormed |-> TRUE, encodedSeparator |-> FALSE, path |-> path,
              slash |-> FALSE, range |-> None, acceptEncoding |-> None, conditions |-> {}]
Gzip == <<[name |-> "gzip", q |-> 10]>>
Bytes(first, last) == [first |-> first, last |-> last]

MCRequests ==
    { [Get(docs) EXCEPT !.slash = TRUE, !.acceptEncoding = Gzip, !.conditions = {"if_none_match"}],
      [Get(page) EXCEPT !.range = <<Bytes(0, 1), Bytes(None, 2)>>, !.conditions = {"if_range"}],
      Get(<<"app">>),
      Get(docs),
      [Get(<<"docs", ".git">>) EXCEPT !.method = "HEAD"] }
====
