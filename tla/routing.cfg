CONSTANTS
  RoutePool <- MCRoutePool
  InterceptorPool <- MCInterceptorPool
  RequestPool <- MCRequestPool
  Methods <- MCMethods
  Schemes <- MCSchemes
  MaxRoutes = 2
  MaxInterceptors = 1
SPECIFICATION Spec
INVARIANTS
  RoutedByThePath
  PathArgsArePresent
  AllowIsTrue
  DocumentIsTrue
CHECK_DEADLOCK FALSE
