------------------------------ MODULE FileVectors ------------------------------
(***************************************************************************)
(* One meaning vector per file: the file vectors of docker/indexer/        *)
(* store.py, the builder thread of service.py and FileIndex of vectors.py. *)
(*                                                                         *)
(* A vector is the mean of the vectors of a file's chunks.  Whatever       *)
(* changes the chunks drops it, in the same transaction; the builder finds *)
(* the files without one, reads their means and writes them, in three      *)
(* steps.  Every write takes the next number of one counter, and the index *)
(* in memory loads what was written since the highest number it has seen.  *)
(*                                                                         *)
(* The chunks of a file and its row are one step here (IndexLedger has     *)
(* them apart), and so are the embeddings of all the chunks of one text.   *)
(* A vector is represented by the text it is the mean of.                  *)
(***************************************************************************)
EXTENDS Naturals, FiniteSets

CONSTANTS
    Files,          \* file ids of one source
    Texts,          \* what files may say
    None,
    Batch           \* files of one step of the builder

VARIABLES
    text,           \* text[f]: what the chunks of an indexed file say, or None
    embedded,       \* texts whose vectors are in the embeddings cache
    vec,            \* vec[f]: the text a file's vector is the mean of, or None
    stamp,          \* stamp[f]: the number its row was written under, 0 for no row
    fvSeq,            \* meta.fv_seq
    builder,        \* a pass of the builder
    ready,          \* file_vectors_ready
    idx, idxSeq     \* FileIndex: the vectors it holds, and its _seq

chunks == <<text, embedded>>
stored == <<vec, stamp, fvSeq>>
index == <<idx, idxSeq>>
vectorVars == <<chunks, stored, builder, ready, index>>

ASSUME FileVectorsAssumption ==
    /\ None \notin Texts
    /\ IsFiniteSet(Files)
    /\ Batch \in Nat \ {0}

Meanings == [Files -> Texts \cup {None}]
Nothing == [f \in Files |-> None]
Asleep == [at |-> "idle", todo |-> {}, means |-> Nothing, failed |-> {}, done |-> FALSE]

VectorsInit ==
    /\ text \in Meanings
    /\ embedded \in SUBSET Texts
    /\ vec = Nothing
    /\ stamp = [f \in Files |-> 0]
    /\ fvSeq = 0
    /\ builder = Asleep /\ ready = FALSE
    /\ idx = Nothing /\ idxSeq = 0

-------------------------------------------------------------------------------
\* As a plausible bug would have it: the counter stays.
SameSeq == fvSeq

\* _fv_next_seq
NextSeq == fvSeq + 1

Write(files, means) ==
    /\ fvSeq' = NextSeq
    /\ vec' = [f \in Files |-> IF f \in files THEN means[f] ELSE vec[f]]
    /\ stamp' = [f \in Files |-> IF f \in files THEN NextSeq ELSE stamp[f]]

\* _fv_drop: the row stays, without a vector, so that the index forgets it too.
Drop(files) ==
    LET had == {f \in files : vec[f] # None} IN
    IF had = {} THEN UNCHANGED stored ELSE Write(had, Nothing)

\* replace_chunks and delete_file_chunks, when the chunks differ.
Replace(f, t) ==
    /\ t # text[f]
    /\ text' = [text EXCEPT ![f] = t]
    /\ Drop({f})
    /\ UNCHANGED <<embedded, builder, ready, index>>

\* rekey_file: the chunks go to the new id, the vector does not.
Rekey(f, g) ==
    /\ f # g /\ text[f] # None /\ text[g] = None
    /\ text' = [text EXCEPT ![f] = None, ![g] = text[f]]
    /\ Drop({f})
    /\ UNCHANGED <<embedded, builder, ready, index>>

Embed(t) ==
    /\ t \in Texts \ embedded
    /\ embedded' = embedded \cup {t}
    /\ UNCHANGED <<text, stored, builder, ready, index>>

\* purge_source
Forget ==
    /\ text' = Nothing
    /\ Drop(Files)
    /\ UNCHANGED <<embedded, builder, ready, index>>

-------------------------------------------------------------------------------
(* build_file_vectors *)

Begin ==
    /\ builder.at = "idle"
    /\ builder' = [Asleep EXCEPT !.at = "todo"]
    /\ UNCHANGED <<chunks, stored, ready, index>>

Missing == {f \in Files : text[f] # None /\ vec[f] = None}

\* As a plausible bug would have it: what failed takes up the batch.
BareLimit == Batch

Limit == Batch + Cardinality(builder.failed)

Fewest(n, set) == IF Cardinality(set) < n THEN Cardinality(set) ELSE n

\* The files of one step: some of those listed that did not fail in this pass.
Batches ==
    UNION {{b \in SUBSET (s \ builder.failed) : Cardinality(b) = Fewest(Batch, s \ builder.failed)} :
           s \in {s \in SUBSET Missing : Cardinality(s) = Fewest(Limit, Missing)}}

List ==
    /\ builder.at = "todo"
    /\ \E b \in Batches :
        /\ b # {}
        /\ builder' = [builder EXCEPT !.at = "mean", !.todo = b]
    /\ UNCHANGED <<chunks, stored, ready, index>>

\* Nothing is left to do: the vectors are ready if this pass wrote none.  The
\* thread then refreshes the index.
Newest == {n \in {idxSeq} \cup {stamp[f] : f \in Files} : \A f \in Files : n >= stamp[f] /\ n >= idxSeq}

Loaded == [f \in Files |-> IF stamp[f] > idxSeq THEN vec[f] ELSE idx[f]]

Refreshed ==
    /\ idx' = Loaded
    /\ idxSeq' \in Newest

EndPass ==
    /\ builder.at = "todo"
    /\ {} \in Batches
    /\ ready' = (ready \/ ~builder.done)
    /\ builder' = Asleep
    /\ Refreshed
    /\ UNCHANGED <<chunks, stored>>

\* file_mean_vectors, from one snapshot of chunks and embeddings.
Mean ==
    LET has == {f \in builder.todo : text[f] \in embedded} IN
    /\ builder.at = "mean"
    /\ builder' = [builder EXCEPT !.at = "put", !.failed = @ \cup (builder.todo \ has), !.todo = has,
                     !.means = [f \in Files |-> IF f \in has THEN text[f] ELSE None]]
    /\ UNCHANGED <<chunks, stored, ready, index>>

\* put_file_vectors
Put ==
    /\ builder.at = "put"
    /\ IF builder.todo = {} THEN UNCHANGED stored ELSE Write(builder.todo, builder.means)
    /\ builder' = [Asleep EXCEPT !.at = "todo", !.failed = builder.failed, !.done = builder.done \/ builder.todo # {}]
    /\ UNCHANGED <<chunks, ready, index>>

BuilderStep == Begin \/ List \/ EndPass \/ Mean \/ Put

\* FileIndex.refresh, before any use of the index.
Refresh ==
    /\ Refreshed
    /\ UNCHANGED <<chunks, stored, builder, ready>>

\* The process ends and starts: what is in memory goes.
Reboot ==
    /\ builder' = Asleep /\ ready' = FALSE
    /\ idx' = Nothing /\ idxSeq' = 0
    /\ UNCHANGED <<chunks, stored>>

VectorsNext ==
    \/ \E f \in Files, t \in Texts \cup {None} : Replace(f, t)
    \/ \E f, g \in Files : Rekey(f, g)
    \/ \E t \in Texts : Embed(t)
    \/ Forget \/ BuilderStep \/ Refresh \/ Reboot

VectorsSpec == VectorsInit /\ [][VectorsNext]_vectorVars

-------------------------------------------------------------------------------
Pass == [at: {"idle", "todo", "mean", "put"}, todo: SUBSET Files, means: Meanings, failed: SUBSET Files,
         done: BOOLEAN]

VectorsTypeOK ==
    /\ text \in Meanings /\ embedded \in SUBSET Texts
    /\ vec \in Meanings /\ stamp \in [Files -> Nat] /\ fvSeq \in Nat
    /\ builder \in Pass /\ ready \in BOOLEAN
    /\ idx \in Meanings /\ idxSeq \in Nat

\* However writes, drops and refreshes are interleaved, the index holds for each
\* file what its row held when it was last written, of all that was written up
\* to the number the index has reached: no write is skipped, and a vector that
\* was dropped is not kept.  `FileIndex.refresh`, `_fv_next_seq`, `_fv_drop`.
IndexFollowsTheStore == \A f \in Files : stamp[f] <= idxSeq => idx[f] = vec[f]

\* Once files and embeddings stay as they are, every file with an embedded text
\* gets a vector, and the index holds it, however many cannot have one yet and
\* however small a batch is.  `build_file_vectors`.
EveryFileGetsAVector ==
    <>[](\A f \in Files : text[f] \in embedded => vec[f] # None /\ idx[f] = vec[f])
================================================================================
