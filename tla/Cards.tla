------------------------------- MODULE Cards -------------------------------
(***************************************************************************)
(* read_cards() of card.cc: one pass over the characters that skips white  *)
(* space, takes a suit and the face right after it for a card and drops    *)
(* whatever is neither.  The module has no next-state relation of its own: *)
(* CardProgram runs the pass on what it has read from a file.              *)
(***************************************************************************)
EXTENDS Naturals, Sequences, SequencesExt, FiniteSetsExt

CONSTANTS
  Suits, Faces,  \* characters toSuit() and toFace() map to a suit, to a face
  Spaces,        \* white space
  Others         \* any other character, 0 included

ASSUME CharacterAssumption ==
  /\ Suits \cap (Faces \cup Spaces \cup Others) = {}
  /\ Faces \cap (Spaces \cup Others) = {}
  /\ Spaces \cap Others = {}

VARIABLES
  data,     \* the characters
  start,    \* the index of *start; Len(data) + 1 is end
  pc,       \* "loop", "skip", "card"
  result,   \* the cards found, as the index of their suit
  overread  \* history: how far beyond the data *start was read

cardVars == <<data, start, pc, result, overread>>

end == Len(data) + 1
Suit(i) == i < end /\ data[i] \in Suits
Face(i) == i < end /\ data[i] \in Faces

(* read_cards() is called with these characters. *)
Start(characters) ==
  /\ data' = characters
  /\ start' = 1 /\ pc' = "loop" /\ result' = <<>> /\ overread' = 0

(* The test of the outer loop. *)
Loop ==
  /\ pc = "loop" /\ start # end
  /\ pc' = "skip"
  /\ UNCHANGED <<data, start, result, overread>>

(* Mutant: the end is not tested. *)
Skips_NoEnd(space) == space /\ start < end + 1

Skips(space) == space /\ start # end

(* The inner loop reads a character before it tests for the end, so after   *)
(* trailing white space it reads the one past the data, whatever that is.   *)
Skip(space) ==
  /\ pc = "skip"
  /\ start < end => space = (data[start] \in Spaces)
  /\ overread' = IF start >= end THEN start - end + 1 ELSE overread
  /\ IF Skips(space)
     THEN start' = start + 1 /\ UNCHANGED pc
     ELSE pc' = "card" /\ UNCHANGED start
  /\ UNCHANGED <<data, result>>

(* Mutants: a character that is no suit is left where it is; one that is no *)
(* face is dropped with the suit before it.                                 *)
Dropped_Stays == IF Suit(start) THEN start + 1 ELSE start
Dropped_Both == Min({IF Suit(start) THEN start + 2 ELSE start + 1, end})

(* What is no card loses one character, unless it is the end. *)
Dropped == Min({start + 1, end})

(* getCard(): a suit and the face that follows it are taken together. *)
GetCard ==
  /\ pc = "card" /\ pc' = "loop"
  /\ IF Suit(start) /\ Face(start + 1)
     THEN result' = Append(result, start) /\ start' = start + 2
     ELSE start' = Dropped /\ UNCHANGED result
  /\ UNCHANGED <<data, overread>>

Returned == pc = "loop" /\ start = end

Step == Loop \/ (\E space \in BOOLEAN : Skip(space)) \/ GetCard

=============================================================================
