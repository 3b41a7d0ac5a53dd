----------------------------- MODULE MCControl ------------------------------
(***************************************************************************)
(* Instances of ControlFile for TLC: what the texts stand for and how long *)
(* they are.                                                               *)
(***************************************************************************)
EXTENDS ControlFile

CONSTANTS upf1, upf2,
    text1,          \* 127.0.0.1:8806, of upf1
    text2, text3,   \* [::1]:1 and [0::1]:1, both of upf2
    text4           \* upf-1.core.example.com:8805, which is not parsed

OneBackend == <<upf1>>

DefaultTexts == <<text1>>

Meaning ==
    [t \in Texts |-> IF t = text1 THEN upf1 ELSE IF t = text4 THEN None ELSE upf2]

\* Lines of 12 to 35 bytes.
MixedLengths ==
    [t \in Texts |->
        IF t = text1 THEN 14 ELSE IF t = text2 THEN 7 ELSE IF t = text3 THEN 8 ELSE 27]

\* 172.20.0.11:8805, the address of README.md: lines of 21 and 24 bytes.
LongTexts == [t \in Texts |-> 16]

=============================================================================
