----------------------------- MODULE MCHttpServer -----------------------------
(***************************************************************************)
(* Instances of HttpServer and SseServer: tool calls for one destination,  *)
(* tool calls for two, and a ping by any route beside them.                *)
(***************************************************************************)
EXTENDS SseServer, TLC

CONSTANTS r1, r2, r3, r4, d1, d2, s1, s2

MCSystemOf == d1 :> s1 @@ d2 :> s2

OneDestination  == r1 :> {d1} @@ r2 :> {d1} @@ r3 :> {d1}
TwoDestinations == r1 :> {d1, Headers} @@ r2 :> {d2}
EveryRoute      == OneDestination @@ r4 :> {d1, d2, Headers, None}

=============================================================================
