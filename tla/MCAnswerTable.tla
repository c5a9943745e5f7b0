---------------------------- MODULE MCAnswerTable ----------------------------
(* Instances of AnswerTable for TLC.  Two answers are equally good, and two *)
(* share a hash value; the table is rehashed at the second or third answer. *)
EXTENDS AnswerTable

MCAnswers == 1 .. 5
MCValue(a) == a \div 2
MCHash(a) == a % 3

AllModes == [opt : {"none"}, card : 0 .. 3] \cup
            [opt : {"min", "max"}, card : 1 .. 3]

=============================================================================
