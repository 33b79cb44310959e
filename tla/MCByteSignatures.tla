--------------------------- MODULE MCByteSignatures ---------------------------
(***************************************************************************)
(* Small builds for ByteSignatures: up to three instructions, of every     *)
(* kind, and updates that put nothing or one instruction before them.      *)
(***************************************************************************)
EXTENDS ByteSignatures

Simple(kind) == [kind |-> kind, field |-> 0, top |-> 0]

(* Two plain instructions differ; what the linker fills in starts as 0.    *)
SomeInstructions == {Simple(k) : k \in Kinds} \cup {[kind |-> "plain", field |-> 1, top |-> 0]}

MCFirstBuilds == UNION {[1 .. n -> SomeInstructions] : n \in 1 .. 3}

MCInsertions == {<<Simple("plain")>>, <<Simple("branch")>>, <<Simple("data")>>}
==============================================================================
