--------------------------- MODULE HandlerPrograms ---------------------------
(***************************************************************************)
(* Notation for handlers: what a handler awaits, written as a sequence of  *)
(* requests, each with what the handler does when the request fails.       *)
(***************************************************************************)
EXTENDS Sequences

\* "abort": the error reaches the handler's catch.
Must(op) == [do |-> op, onError |-> "abort"]

\* "ignore": an inner catch logs the error and the handler goes on.
May(op) == [do |-> op, onError |-> "ignore"]

Only(condition, steps) == IF condition THEN steps ELSE << >>

\* lock ... try { body } finally { unlock }.
Section(body, unlock) == << Must("lock") >> \o body \o << unlock >>

=============================================================================
