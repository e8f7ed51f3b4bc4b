----------------------------- MODULE SearchText -----------------------------
(***************************************************************************)
(* Two algorithms of search that keep no state: how a text is cut into     *)
(* chunks (storage/content.py) and how hits share the places of a result   *)
(* (storage/search.py).                                                    *)
(*                                                                         *)
(* A text is a sequence of characters, each its width in UTF-8 bytes, a    *)
(* line feed is Newline.  Offsets count characters from 0, as in the code. *)
(***************************************************************************)
EXTENDS Integers, Sequences, FiniteSets, SequencesExt, FiniteSetsExt

CONSTANT ChunkBytes     \* MAX_SEARCH_CHUNK_BYTES

ASSUME ChunkAssumption == ChunkBytes \in Nat \ {0}

Newline    == 0
Characters == {Newline} \cup 1 .. 4

Smaller(i, j) == IF i < j THEN i ELSE j

Width(c) == IF c = Newline THEN 1 ELSE c
Bytes(t, from, to) == Cardinality(UNION {{i} \X (1 .. Width(t[i])) : i \in from + 1 .. to})

(* The binary search finds the longest prefix under the ceiling, and never *)
(* less than one character.                                                *)
Longest(t, start) ==
  Max({start + 1} \cup
      {e \in start + 1 .. Smaller(start + ChunkBytes, Len(t)) : Bytes(t, start, e) <= ChunkBytes})

(* Mistaken variant: the blank line may begin at the end of the chunk. *)
BlankLinesAtEnd(t, start, end) ==
  {i \in start .. Smaller(end, Len(t) - 2) : t[i + 1] = Newline /\ t[i + 2] = Newline}

BlankLines(t, start, end) ==
  {i \in start .. end - 2 : t[i + 1] = Newline /\ t[i + 2] = Newline}

(* A chunk that does not end the text ends after its last blank line. *)
ChunkEnd(t, start) ==
  LET end  == Longest(t, start)
      last == Max(BlankLines(t, start, end) \cup {start}) IN
    IF end < Len(t) /\ last > start THEN last + 2 ELSE end

(* iter_search_chunks: an empty text has one empty chunk. *)
Chunks(t) ==
  LET from[start \in 0 .. Len(t)] ==
        IF start = Len(t) THEN {}
        ELSE {<<start, ChunkEnd(t, start)>>} \cup from[ChunkEnd(t, start)]
  IN  IF t = <<>> THEN {<<0, 0>>} ELSE from[0]

(* Mistaken variant: half of the places are always kept for sessions. *)
PageSlotsHalf(pages, sessions, n) == Smaller(pages, n - n \div 2)

(* select_hits: pages first, each kind may fill the other's gap. *)
PageSlots(pages, sessions, n) == Smaller(pages, n - Smaller(sessions, n \div 2))

SessionSlots(pages, sessions, n) == Smaller(sessions, n - PageSlots(pages, sessions, n))
=============================================================================
