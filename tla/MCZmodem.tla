------------------------------ MODULE MCZmodem ------------------------------
(* Zmodem on small instances: the files and the ways the runs start. *)
EXTENDS Zmodem, TLC

TwoFiles == <<3, 1>>
Nothing == [f \in {} |-> <<>>]

(* What may be in the download directory *)
Resumable == 1 :> <<1>>
Complete == 1 :> <<1, 2, 3>>
Other == 1 :> <<0, 0>>
Longer == 1 :> <<0, 0, 0, 0>>

Auto == [sesc |-> FALSE, resc |-> FALSE, chal |-> FALSE,
         noisy |-> FALSE, keys |-> FALSE, auto |-> TRUE,
         waiting |-> FALSE, prior |-> "INIT", disk |-> Nothing]
Cold == [Auto EXCEPT !.auto = FALSE]

SmoothSetups ==
  {[Auto EXCEPT !.chal = c, !.disk = d] :
     c \in BOOLEAN, d \in {Nothing, Resumable, Complete, Other, Longer}}

(* Started by hand, after other transfers and with other options. *)
OddSetups ==
  {Cold, [Cold EXCEPT !.chal = TRUE, !.disk = Other], [Cold EXCEPT !.prior = "ZSKIP"],
   [Auto EXCEPT !.keys = TRUE], [Cold EXCEPT !.waiting = TRUE], [Cold EXCEPT !.sesc = TRUE], [Cold EXCEPT !.resc = TRUE]}

NoisySetups == {[Auto EXCEPT !.noisy = TRUE, !.disk = d] : d \in {Nothing, Resumable}}

(* Noise, and another file of that name in the download directory *)
ResumeSetups == {[Auto EXCEPT !.noisy = TRUE, !.disk = Other]}

AllSetups == SmoothSetups \cup OddSetups \cup NoisySetups
=============================================================================
