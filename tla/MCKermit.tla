------------------------------ MODULE MCKermit ------------------------------
(* Kermit on small instances: the files and the ways the runs start. *)
EXTENDS Kermit

TwoFiles == <<4, 1>>

(* What may be in the download directory: nothing, a part of the first     *)
(* file, or all of it *)
Nothing == <<<<>>, <<>>>>
Resumable == <<<<1, 2>>, <<>>>>
Complete == <<<<1, 2, 3, 4>>, <<>>>>

Auto == [ss |-> TRUE, rs |-> TRUE, text |-> FALSE, noisy |-> FALSE,
         keys |-> "none", auto |-> TRUE, disk |-> Nothing]

AutoSetups ==
  {[Auto EXCEPT !.ss = a, !.rs = b, !.disk = d] :
     a \in BOOLEAN, b \in BOOLEAN, d \in {Nothing, Resumable, Complete}}

Modes == {Auto, [Auto EXCEPT !.rs = FALSE]}

HandSetups == {[p EXCEPT !.auto = FALSE] : p \in Modes}
KeySetups == {[p EXCEPT !.keys = k] : p \in Modes, k \in {"abort", "skip"}}
TextSetups == {[p EXCEPT !.text = TRUE] : p \in Modes}
NoisySetups ==
  {[p EXCEPT !.noisy = TRUE, !.disk = d] : p \in Modes, d \in {Nothing, Resumable, Complete}}

AllKSetups == AutoSetups \cup HandSetups \cup KeySetups \cup TextSetups \cup NoisySetups
=============================================================================
