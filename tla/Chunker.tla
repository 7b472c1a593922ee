------------------------------- MODULE Chunker -------------------------------
(***************************************************************************)
(* memory/chunker.js: chunkText() cuts a text at sentence boundaries into  *)
(* chunks that overlap.  The normalized text is its positions 1..length;   *)
(* blanks are the positions of its spaces and breaks those blanks at which *)
(* splitIntoSentences() splits.  Buffers and chunks are sequences of       *)
(* positions; the start and end the code reports count from 0.             *)
(***************************************************************************)
EXTENDS Naturals, Sequences, FiniteSetsExt

CONSTANTS MaxLength, MaxChunkSize, MaxOverlap   \* bounds of the texts and options tried

ASSUME ChunkAssumption == {MaxLength, MaxChunkSize, MaxOverlap} \subseteq Nat

VARIABLES doc,       \* [length, blanks, breaks]
          opts,      \* [size, overlap]: chunkSize and overlap
          at,        \* where the next sentence begins
          buffer, startIdx,
          pieces,    \* the chunks: [text, start, end]
          chunking   \* "idle", "going" or "done"

chunkState == <<doc, opts, at, buffer, startIdx, pieces, chunking>>

Texts == {d \in [length: 1..MaxLength, blanks: SUBSET (2..(MaxLength - 1)),
                 breaks: SUBSET (2..(MaxLength - 1))] :
             /\ d.breaks \subseteq d.blanks
             /\ \A b \in d.blanks : b < d.length /\ (b + 1) \notin d.blanks}

NoText == [length |-> 1, blanks |-> {}, breaks |-> {}]

ChunkInit ==
    /\ doc = NoText /\ opts = [size |-> 1, overlap |-> 0]
    /\ at = 1 /\ buffer = <<>> /\ startIdx = 0
    /\ pieces = <<>> /\ chunking = "idle"

-----------------------------------------------------------------------------
SentenceEnd ==
    LET later == {b \in doc.breaks : b > at}
    IN IF later = {} THEN doc.length ELSE Min(later) - 1

Sentence == [i \in 1..(SentenceEnd - at + 1) |-> at + i - 1]

\* trim()
Trimmed(chars) ==
    LET solid == {i \in 1..Len(chars) : chars[i] \notin doc.blanks}
    IN IF solid = {} THEN <<>> ELSE SubSeq(chars, Min(solid), Max(solid))

\* slice(-overlap), which is the whole of it for an overlap of 0.
LastOf(chars) ==
    IF opts.overlap \in 1..Len(chars)
    THEN SubSeq(chars, Len(chars) - opts.overlap + 1, Len(chars))
    ELSE chars

Chunk(chars) == [text |-> chars, start |-> startIdx, end |-> startIdx + Len(chars)]

Fits == Len(buffer) + Len(Sentence) + 1 <= opts.size
Remaining == chunking = "going" /\ at <= doc.length
NextSentence == at' = SentenceEnd + 2 /\ UNCHANGED <<doc, opts, chunking>>

ChunkText ==
    /\ chunking = "idle"
    /\ doc' \in Texts
    /\ opts' \in [size: 1..MaxChunkSize, overlap: 0..MaxOverlap]
    /\ chunking' = "going"
    /\ UNCHANGED <<at, buffer, startIdx, pieces>>

\* The text is no longer than a chunk.
Short ==
    /\ Remaining /\ at = 1 /\ doc.length <= opts.size
    /\ pieces' = <<Chunk([i \in 1..doc.length |-> i])>>
    /\ chunking' = "done"
    /\ UNCHANGED <<doc, opts, at, buffer, startIdx>>

Extend ==
    /\ Remaining /\ doc.length > opts.size /\ Fits
    /\ buffer' = IF buffer = <<>> THEN Sentence ELSE buffer \o <<at - 1>> \o Sentence
    /\ NextSentence
    /\ UNCHANGED <<startIdx, pieces>>

\* Mutant: the sentence that did not fit is left out.
FlushOnly ==
    LET chunk == Chunk(Trimmed(buffer)) IN
    /\ Remaining /\ doc.length > opts.size /\ ~Fits /\ buffer # <<>>
    /\ pieces' = Append(pieces, chunk)
    /\ buffer' = LastOf(chunk.text)
    /\ startIdx' = chunk.end - Len(LastOf(chunk.text))
    /\ NextSentence

\* The buffer becomes a chunk, its end begins the next one.
Flush ==
    LET chunk == Chunk(Trimmed(buffer)) IN
    /\ Remaining /\ doc.length > opts.size /\ ~Fits /\ buffer # <<>>
    /\ pieces' = Append(pieces, chunk)
    /\ buffer' = LastOf(chunk.text) \o <<at - 1>> \o Sentence
    /\ startIdx' = chunk.end - Len(LastOf(chunk.text))
    /\ NextSentence

\* A sentence that does not fit an empty buffer is cut.
ForceBreak ==
    LET chunk == Chunk(SubSeq(Sentence, 1, Min({opts.size, Len(Sentence)}))) IN
    /\ Remaining /\ doc.length > opts.size /\ ~Fits /\ buffer = <<>>
    /\ pieces' = Append(pieces, chunk)
    /\ buffer' = SubSeq(Sentence, opts.size + 1, Len(Sentence))
    /\ startIdx' = chunk.end
    /\ NextSentence

\* What is left is the last chunk.
FlushRest ==
    /\ chunking = "going" /\ at > doc.length
    /\ pieces' = IF Trimmed(buffer) = <<>> THEN pieces
                 ELSE Append(pieces, Chunk(Trimmed(buffer)))
    /\ chunking' = "done"
    /\ UNCHANGED <<doc, opts, at, buffer, startIdx>>

ChunkNext ==
    \/ ChunkText \/ Short \/ Extend \/ Flush \/ ForceBreak \/ FlushRest

ChunkSpec == ChunkInit /\ [][ChunkNext]_chunkState

-----------------------------------------------------------------------------
Positions(chars) == {chars[i] : i \in 1..Len(chars)}

\* A chunk is a piece of the text as it stands, and is reported where it begins
\* or before: the reported positions lag behind by the spaces trimmed so far.
PieceOfText(chunk) ==
    /\ \A i \in 2..Len(chunk.text) : chunk.text[i] = chunk.text[i - 1] + 1
    /\ chunk.start < chunk.text[1]
    /\ chunk.end = chunk.start + Len(chunk.text)

\* A sentence lies between two breaks.
SentenceLengths ==
    {n \in 0..doc.length :
        \E b \in {0} \cup doc.breaks : \E e \in doc.breaks \cup {doc.length + 1} :
            /\ n = e - b - 1 /\ b < e
            /\ \A k \in doc.breaks : k <= b \/ k >= e}

\* Whatever the sentences, the chunk size and the overlap: no character is lost,
\* no chunk mixes distant parts of the text, and a chunk is larger than asked
\* only by a sentence that did not fit or, with an overlap of 0, by everything
\* before it.
ChunksFaithful ==
    /\ \A i \in 1..Len(pieces) :
          /\ PieceOfText(pieces[i])
          /\ opts.overlap > 0 =>
                Len(pieces[i].text) <= Max({opts.size, opts.overlap + 1 + Max(SentenceLengths)})
    /\ chunking = "done" =>
          (1..doc.length) \ doc.blanks \subseteq
              UNION {Positions(pieces[i].text) : i \in 1..Len(pieces)}
=============================================================================
