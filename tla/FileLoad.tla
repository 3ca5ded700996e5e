------------------------------ MODULE FileLoad ------------------------------
(***************************************************************************)
(* What the boot chain promises (opensource/os/boot): two files are looked *)
(* up in the root directory of a disk, LOADER.BIN and, once that is there, *)
(* KERNEL.BIN.  A file is the list of clusters its chain in the allocation *)
(* table runs through; it is loaded cluster by cluster, in that order,     *)
(* none skipped, repeated or invented.  Nothing is said of sectors, tracks *)
(* or memory.                                                              *)
(***************************************************************************)
EXTENDS Integers, Sequences

CONSTANTS Places,      \* of the root directory, in order
          Names,       \* of files
          Clusters,    \* numbers of the data clusters
          EndOfChain   \* the table entry of a file's last cluster

VARIABLES disk, want, stage, got

vars == <<disk, want, stage, got>>

Diskettes == [dir : [Places -> [name : Names, cluster : 0 .. EndOfChain]],
              fat : [Clusters -> 0 .. EndOfChain]]

Named(w) == {e \in Places : disk.dir[e].name = w}
FirstCluster(w) ==
  disk.dir[CHOOSE e \in Named(w) : \A f \in Named(w) : e <= f].cluster
Following == IF got = <<>> THEN FirstCluster(want) ELSE disk.fat[got[Len(got)]]

Init == disk \in Diskettes /\ want = "LOADER" /\ stage = "searching" /\ got = <<>>

Find == /\ stage = "searching" /\ Named(want) # {}
        /\ stage' = "loading" /\ UNCHANGED <<disk, want, got>>
Miss == /\ stage = "searching" /\ Named(want) = {}
        /\ stage' = "absent" /\ UNCHANGED <<disk, want, got>>
ReadOne == /\ stage = "loading" /\ Following \in Clusters
           /\ got' = Append(got, Following) /\ UNCHANGED <<disk, want, stage>>
Finish == /\ stage = "loading" /\ got # <<>> /\ Following = EndOfChain
          /\ stage' = "loaded" /\ UNCHANGED <<disk, want, got>>
HandOver == /\ stage = "loaded" /\ want = "LOADER"
            /\ want' = "KERNEL" /\ stage' = "searching" /\ got' = <<>>
            /\ UNCHANGED disk

Next == Find \/ Miss \/ ReadOne \/ Finish \/ HandOver

Spec == Init /\ [][Next]_vars
=============================================================================
