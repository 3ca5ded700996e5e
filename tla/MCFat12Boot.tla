----------------------------- MODULE MCFat12Boot ----------------------------
(***************************************************************************)
(* Small diskettes for Fat12Boot: every way to give the two files disjoint *)
(* chains over five clusters, in every order, so that entries are odd and  *)
(* even, split between sectors and not.  A loader of three clusters or a   *)
(* kernel of four is more than the segment holds; a file may be absent or  *)
(* end with a mark other than the one the code looks for.                  *)
(***************************************************************************)
EXTENDS Fat12Boot, FiniteSets

MCNames == {"LOADER", "KERNEL", "OTHER"}
MCClusters == 2 .. 6
OtherEnd == EndOfChain - 1
Chains == UNION {{s \in [1 .. k -> MCClusters] :
                    Cardinality({s[i] : i \in 1 .. k}) = k} : k \in 0 .. 4}
On(c) == {c[i] : i \in DOMAIN c}

\* lc, kc: the two files' clusters (none: no such file); le, ke: their end
\* marks; lp, kp: their places in the directory.
Formatted(lc, kc, le, ke, lp, kp) ==
  LET After(c, end, n) == LET i == CHOOSE j \in DOMAIN c : c[j] = n
                          IN IF i = Len(c) THEN end ELSE c[i + 1]
  IN [fat |-> [n \in MCClusters |-> IF n \in On(lc) THEN After(lc, le, n)
                                    ELSE IF n \in On(kc) THEN After(kc, ke, n)
                                    ELSE 0],
      dir |-> [e \in Places |->
                 CASE e = lp /\ lc # <<>> -> [name |-> "LOADER", cluster |-> lc[1]]
                   [] e = kp /\ kc # <<>> -> [name |-> "KERNEL", cluster |-> kc[1]]
                   [] OTHER -> [name |-> "OTHER", cluster |-> 0]]]

MCDisks ==
  {Formatted(c[1], c[2], v[1], v[2], v[3], v[4]) :
     c \in {d \in Chains \X Chains : /\ Len(d[1]) <= 3
                                     /\ On(d[1]) \cap On(d[2]) = {}},
     v \in {<<EndOfChain, EndOfChain, 0, 3>>, <<OtherEnd, EndOfChain, 2, 1>>,
            <<EndOfChain, OtherEnd, 3, 2>>}}
=============================================================================
