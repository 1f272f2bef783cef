------------------------------ MODULE MCStream ------------------------------
(* Instances of EventStream for TLC. *)
EXTENDS EventStream

\* The frontend asks for everything; another client for two patterns that
\* overlap, as in patterns=dag.*,*.status.
AnyPatterns == {<<"*">>, <<"one", "two">>}
AnyMatched ==
  [p \in {"*", "one", "two"} |->
     CASE p = "one" -> {"first", "both"} \cap Type
       [] p = "two" -> {"second", "both"} \cap Type
       [] OTHER -> Type]
=============================================================================
