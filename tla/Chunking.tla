------------------------------ MODULE Chunking ------------------------------
(***************************************************************************)
(* The text splitter of the workflow nodes                                 *)
(* (domain/workflows/nodes/chunking.py, RecursiveTextSplitterNode).        *)
(*                                                                         *)
(* A text is seen as the lengths of the parts that text.split(sep) yields. *)
(* Characters are numbered from 1 through the text and the separator the   *)
(* loop puts after the last part, so that what the loop carries is always  *)
(* a run of consecutive positions lo+1 .. hi: the end of the chunk before  *)
(* it (the overlap) followed by whole parts.  A separator is a length and  *)
(* the number of leading characters str.strip() would keep: blank lines    *)
(* are [len |-> 2, ink |-> 0], full stop and space [len |-> 2, ink |-> 1]. *)
(* Parts hold no blank at their ends.                                      *)
(***************************************************************************)
EXTENDS Naturals, Sequences, FiniteSets

CONSTANTS PartLists,    \* the texts, as non-empty sequences of part lengths
          Separators,   \* the first separators a configuration may name
          ChunkSizes,   \* values of chunk_size
          Overlaps      \* values of chunk_overlap

ASSUME ChunkAssumption ==
    /\ PartLists \subseteq Seq(Nat) \ {<< >>}
    /\ Separators \subseteq [len : Nat, ink : Nat]
    /\ \A s \in Separators : s.ink <= s.len
    /\ ChunkSizes \subseteq Nat
    /\ Overlaps \subseteq Nat

VARIABLES
    splitting,   \* "idle", "split" in the loop over the parts, "done" returned
    job,         \* the arguments of the call
    part,        \* index of the part the loop looks at next
    lo, hi,      \* current_chunk is positions lo+1 .. hi
    ink,         \* positions that are no separator blank, so far
    chunks       \* the chunks appended so far, as sets of positions

chunkVars == <<splitting, job, part, lo, hi, ink, chunks>>

NoJob == [parts |-> <<0>>, sep |-> [len |-> 0, ink |-> 0], size |-> 0, overlap |-> 0]

ChunkInit ==
    /\ splitting = "idle"
    /\ job = NoJob
    /\ part = 1 /\ lo = 0 /\ hi = 0
    /\ ink = {}
    /\ chunks = << >>

\* Mutant: the last character goes with the blanks.
stripOne(text) == {p \in text : \E a, b \in ink : a \in text /\ b \in text /\ a <= p /\ p < b}

\* current_chunk.strip(): from the first to the last position that shows.
strip(text) == {p \in text : \E a, b \in ink : a \in text /\ b \in text /\ a <= p /\ p <= b}

\* `if current_chunk: chunks.append(current_chunk.strip())`
Flush == IF hi > lo THEN Append(chunks, strip((lo + 1) .. hi)) ELSE chunks

\* run: an empty text returns at once; the other texts enter _split_recursive.
\* Only separators[0] is ever used; without separators the text is one part.
split(parts, sep, size, overlap) ==
    /\ Len(parts) > 1 \/ parts[1] > 0
    /\ sep.len = 0 => Len(parts) = 1
    /\ splitting' = "split"
    /\ job' = [parts |-> parts, sep |-> sep, size |-> size, overlap |-> overlap]
    /\ UNCHANGED <<part, lo, hi, ink, chunks>>

\* Mutant: the part alone is measured.
FitsAlone == job.parts[part] <= job.size

Fits == (hi - lo) + job.parts[part] <= job.size

\* One iteration: the part and its separator are put after the chunk, or the
\* chunk is closed and the next one starts with its last chunk_overlap characters.
AddPart ==
    /\ splitting = "split"
    /\ part <= Len(job.parts)
    /\ hi' = hi + job.parts[part] + job.sep.len
    /\ ink' = ink \cup ((hi + 1) .. (hi + job.parts[part] + job.sep.ink))
    /\ part' = part + 1
    /\ \/ /\ Fits
          /\ UNCHANGED <<lo, chunks>>
       \/ /\ ~Fits
          /\ chunks' = Flush
          /\ lo' = IF hi - lo <= job.overlap THEN lo ELSE hi - job.overlap
    /\ UNCHANGED <<splitting, job>>

\* Lines 82-85: the last chunk, then return.
FinishSplit ==
    /\ splitting = "split"
    /\ part > Len(job.parts)
    /\ chunks' = Flush
    /\ splitting' = "done"
    /\ UNCHANGED <<job, part, lo, hi, ink>>

ChunkNext ==
    \/ /\ splitting = "idle"
       /\ \E parts \in PartLists, sep \in Separators, size \in ChunkSizes, overlap \in Overlaps :
             split(parts, sep, size, overlap)
    \/ AddPart
    \/ FinishSplit

ChunkSpec == ChunkInit /\ [][ChunkNext]_chunkVars

-----------------------------------------------------------------------------
\* The state the loop is in.
ChunkTypeOK ==
    /\ splitting \in {"idle", "split", "done"}
    /\ job \in [parts : Seq(Nat), sep : [len : Nat, ink : Nat], size : Nat, overlap : Nat]
    /\ job.sep.ink <= job.sep.len
    /\ part \in 1 .. (Len(job.parts) + 1)
    /\ lo \in Nat /\ hi \in Nat /\ lo <= hi
    /\ ink \in SUBSET Nat
    /\ chunks \in Seq(SUBSET Nat)

(***************************************************************************)
(* How long a chunk can get (line 73 counts neither the separators it      *)
(* joins with nor, at line 80, the overlap it starts with): a chunk is     *)
(* longer than chunk_size, by more than what strip() leaves of one         *)
(* separator, only where a single part with the overlap before it is.      *)
(***************************************************************************)
ChunkBound ==
    \A k \in 1 .. Len(chunks) :
        \/ Cardinality(chunks[k]) <= job.size + job.sep.ink
        \/ \E j \in 1 .. Len(job.parts) :
              Cardinality(chunks[k]) <= job.overlap + job.parts[j] + job.sep.ink

(***************************************************************************)
(* Closing a chunk, carrying the overlap over and stripping blanks loses   *)
(* no text: when the splitter returns, every character that is not a       *)
(* separator's blank is in a chunk (lines 76-83).                          *)
(***************************************************************************)
NothingLost ==
    splitting = "done" =>
        \A p \in ink : \E k \in 1 .. Len(chunks) : p \in chunks[k]
=============================================================================
