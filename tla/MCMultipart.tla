---- MODULE MCMultipart ----
(* Bodies for Multipart: data of up to three characters a delimiter is made *)
(* of in the first of one or two parts, bodies cut off anywhere, and        *)
(* malformed ones.                                                          *)
EXTENDS Multipart

Part(header, data) == Eol \o header \o Eol \o Eol \o data \o Delim
Close == <<"-", "-">>
Datas == {<<>>} \cup UNION {[1 .. n -> {"r", "l", "-", "x"}] : n \in 1 .. 3}
           \cup {Eol \o <<"-", "-">>, <<"r">> \o Eol \o <<"-">>, Eol \o <<"-", "x">>, FirstDelim}
Simple == FirstDelim \o Part(<<"h">>, <<"x">>) \o Part(<<"h">>, <<>>) \o Close

MCBodies ==
    {FirstDelim \o Part(<<"h">>, d) \o Close : d \in Datas}
    \cup {<<"-", "r", "-">> \o Simple, FirstDelim \o Close}
    \cup {SubSeq(Simple, 1, n) : n \in 0 .. Len(Simple)}
    \cup {FirstDelim \o Part(h, <<"x">>) \o Close :
            h \in {<<"x">>, <<>>, <<"h", "x">> \o Eol \o <<"h">>, <<"h">> \o Eol \o <<"x">>}}
    \cup {FirstDelim \o <<"x", "x">>, FirstDelim \o Part(<<"h">>, <<>>) \o <<"r", "x">>}
====
