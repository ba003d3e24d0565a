------------------------ MODULE MCResourceLifecycle ------------------------
(* Three resources: a and b include c, b also includes a.                  *)
EXTENDS ResourceLifecycle, TLC
CONSTANTS a, b, c
MCOrder == <<c, a, b>>
MCIncludes == a :> <<c>> @@ b :> <<c, a>> @@ c :> <<>>
=============================================================================
