----------------------------- MODULE MCSession -----------------------------
(* Finite instances of Session. *)
EXTENDS Session

MCAll == AnyRequest

\* One request per case the session tells apart.
MCCases ==
  { [version |-> 11, conn |-> "none",       target |-> "route"],
    [version |-> 10, conn |-> "keep-alive", target |-> "route"],
    [version |-> 11, conn |-> "close",      target |-> "illegal"],
    [version |-> 11, conn |-> "none",       target |-> "illegal"],
    [version |-> 11, conn |-> "none",       target |-> "malformed"] }
=============================================================================
