----------------------------- MODULE MCContainer -----------------------------
(***************************************************************************)
(* A small container for TLC: two dimensions, two spellings of one time,   *)
(* three profiles that agree or conflict, and two processes.               *)
(***************************************************************************)
EXTENDS Container, TLC

CONSTANTS time, p1, p2

MCProcess == {p1, p2}
MCProcessSymmetry == Permutations(MCProcess)

MCDimension == {Variable, time}

\* "01:00+01:00" and "00:00Z" are one instant.
MCSpelling == {"temperature", "00:00Z", "01:00+01:00"}
MCValue == {"temperature", "00:00Z"}
MCCanonical == [s \in MCSpelling |-> IF s = "01:00+01:00" THEN "00:00Z" ELSE s]

MCCoordinates ==
    {Variable :> "temperature",
     (Variable :> "temperature") @@ (time :> "00:00Z"),
     (Variable :> "temperature") @@ (time :> "01:00+01:00")}

\* Nothing declared (the container's default), PNG declared, gzip MVT declared.
MCRequest ==
    {<<>>,
     [media |-> "image/png"],
     [media |-> MVT, encoding |-> "MVT+gzip", schema |-> "vector_layers"]}
=============================================================================
