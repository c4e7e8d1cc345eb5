----------------------------- MODULE MCBindings -----------------------------
(* What bindings are made of, each part on all its small inputs, one after    *)
(* the other: the patterns of MCPathPattern, the expressions of RegexLaws,    *)
(* and chains of parameter objects.  A part runs while the others have        *)
(* nothing to do.                                                             *)
EXTENDS MCPathPattern, RegexLaws, Objects

laws == <<nodes, subject>>

Idle == pattern = <<>> /\ pc = "count"

BindingsInit == Init /\ Nothing /\ ObjectsInit
BindingsNext ==
  \/ Nothing /\ chain = <<>> /\ Next /\ UNCHANGED <<laws, objects>>
  \/ Idle /\ chain = <<>> /\ Grow /\ UNCHANGED <<vars, objects>>
  \/ Idle /\ Nothing /\ ObjectsNext /\ UNCHANGED <<vars, laws>>
BindingsSpec == BindingsInit /\ [][BindingsNext]_<<vars, laws, objects>>
=============================================================================
