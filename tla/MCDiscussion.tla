---------------------------- MODULE MCDiscussion ----------------------------
(* An instance of Discussion for TLC: two clients, and a document with and without the     *)
(* fragment of the question.                                                               *)
EXTENDS Discussion

CONSTANTS c1, c2

TwoTexts == {"full", "cut"}
FullText == {"full"}
=============================================================================
