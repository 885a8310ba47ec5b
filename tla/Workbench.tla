----------------------------- MODULE Workbench -----------------------------
(***************************************************************************)
(* Every tool that works on one container: imports, signatures, exports    *)
(* and protected packages, run side by side by several processes, with     *)
(* kills.                                                                  *)
(***************************************************************************)
EXTENDS Importers, Signing, Exporting, Protection

\* A type invariant: only tiles that are there are linked, and two imports never make
\* one container.
TypeOK ==
    /\ target \in Inode \union {None}
    /\ \A i \in Inode :
          LET c == containers[i] IN
          /\ c.tiles \subseteq Tile /\ c.links \subseteq c.tiles
          /\ c.selected \in Input \union {None}
          /\ c.metadata.frames \subseteq Input /\ c.metadata.zooms \subseteq Zoom
          /\ \A s \in c.signatures : s.key \in Key /\ DOMAIN s.manifest = Table
          /\ version[i] \in Nat
    /\ begun \in 0 .. MaxCommands /\ kills \in 0 .. MaxKills
    /\ kept \subseteq Tile
    /\ overlapped \in BOOLEAN /\ spoiled \in BOOLEAN
    /\ \A p, q \in Importing : p # q => job[p].id # job[q].id

Next ==
    \E p \in Process :
        \/ ImportStep(p) \/ SignStep(p) \/ ExportStep(p) \/ ProtectionStep(p)
        \/ Kill(p)

Spec == Init /\ [][Next]_vars
=============================================================================
