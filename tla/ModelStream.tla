----------------------------- MODULE ModelStream -----------------------------
(***************************************************************************)
(* callStream() of services/geminiClient.js: the model's answer arrives as *)
(* chunks of bytes, cut anywhere; each is decoded by itself, and every     *)
(* complete line becomes an event.  Bytes are "x", a space, a newline and  *)
(* the two halves of a character of two bytes.  An event is its line: the  *)
(* text extracted from it is a function of the line.                       *)
(***************************************************************************)
EXTENDS Naturals, SequencesExt, FiniteSetsExt

CONSTANT MaxBytes   \* bound: length of the answers tried

ASSUME StreamAssumption == MaxBytes \in Nat

Bytes == {"x", " ", "newline", "half1", "half2"}

VARIABLES answer,     \* the bytes the server sends
          sent,       \* how many have arrived
          buffered, events,
          torn,       \* history: a chunk ended inside a character
          streaming   \* "idle", "open", "ended" or "broken"

streamState == <<answer, sent, buffered, events, torn, streaming>>

\* Complete characters only.
Answers ==
    {b \in SeqOf(Bytes, MaxBytes) :
        \A i \in 1..(Len(b) + 1) :
            (i \in 2..(Len(b) + 1) /\ b[i - 1] = "half1") <=> (i \in 1..Len(b) /\ b[i] = "half2")}

StreamInit ==
    /\ answer = <<>> /\ sent = 0
    /\ buffered = <<>> /\ events = <<>>
    /\ torn = FALSE /\ streaming = "idle"

-----------------------------------------------------------------------------
\* A sequence without the occurrences of one value.
Without(seq, value) ==
    LET rest[n \in 0..Len(seq)] ==
            IF n = 0 THEN <<>>
            ELSE IF seq[n] = value THEN rest[n - 1] ELSE Append(rest[n - 1], seq[n])
    IN rest[Len(seq)]

\* toString('utf8') of one chunk: a half without its other half is a "?".
Whole(bytes, i) == bytes[i] = "half1" /\ i < Len(bytes) /\ bytes[i + 1] = "half2"

Character(bytes, i) ==
    IF Whole(bytes, i) THEN "y"
    ELSE IF i > 1 /\ Whole(bytes, i - 1) THEN "nothing"
    ELSE IF bytes[i] \in {"half1", "half2"} THEN "?" ELSE bytes[i]

Decoded(bytes) == Without([i \in 1..Len(bytes) |-> Character(bytes, i)], "nothing")

\* The newline before a position, 0 if there is none.
NewlineBefore(text, i) == Max({0} \cup {j \in 1..Len(text) : j < i /\ text[j] = "newline"})

Trim(text) ==
    LET solid == {i \in 1..Len(text) : text[i] # " "}
    IN IF solid = {} THEN <<>> ELSE SubSeq(text, Min(solid), Max(solid))

\* The line that ends at a position, trimmed; nothing ends where no newline is.
LineEnding(text, i) ==
    IF text[i] = "newline" THEN Trim(SubSeq(text, NewlineBefore(text, i) + 1, i - 1)) ELSE <<>>

\* The complete lines of a text without the empty ones, and what follows them.
Lines(text) == Without([i \in 1..Len(text) |-> LineEnding(text, i)], <<>>)
AfterLines(text) == SubSeq(text, NewlineBefore(text, Len(text) + 1) + 1, Len(text))

CallStream ==
    /\ streaming = "idle"
    /\ answer' \in Answers
    /\ streaming' = "open"
    /\ UNCHANGED <<sent, buffered, events, torn>>

\* Mutant: what is left of the previous chunk is dropped.
ChunkAlone(k) ==
    LET text == Decoded(SubSeq(answer, sent + 1, k)) IN
    /\ streaming = "open"
    /\ events' = events \o Lines(text)
    /\ buffered' = AfterLines(text)
    /\ sent' = k
    /\ torn' = (torn \/ answer[k] = "half1")
    /\ UNCHANGED <<answer, streaming>>

\* A chunk: the bytes up to the k-th.
ChunkArrives(k) ==
    LET text == buffered \o Decoded(SubSeq(answer, sent + 1, k)) IN
    /\ streaming = "open"
    /\ events' = events \o Lines(text)
    /\ buffered' = AfterLines(text)
    /\ sent' = k
    /\ torn' = (torn \/ answer[k] = "half1")
    /\ UNCHANGED <<answer, streaming>>

\* The end of the stream: what is left is an event, as it stands.
StreamEnds ==
    /\ streaming = "open" /\ sent = Len(answer)
    /\ events' = IF buffered = <<>> THEN events ELSE Append(events, buffered)
    /\ buffered' = <<>>
    /\ streaming' = "ended"
    /\ UNCHANGED <<answer, sent, torn>>

\* The connection breaks, or the consumer stops: the stream is destroyed.
StreamBreaks ==
    /\ streaming = "open"
    /\ streaming' = "broken"
    /\ UNCHANGED <<answer, sent, buffered, events, torn>>

StreamNext ==
    \/ CallStream
    \/ \E k \in (sent + 1)..Len(answer) : ChunkArrives(k)
    \/ StreamEnds \/ StreamBreaks

StreamSpec == StreamInit /\ [][StreamNext]_streamState

-----------------------------------------------------------------------------
\* However the network cuts the answer, the events are its lines: only a cut
\* inside a character shows.
StreamIsText ==
    LET text == Decoded(SubSeq(answer, 1, sent)) IN
    ~torn =>
        IF streaming = "ended"
        THEN events = Lines(text)
                \o (IF AfterLines(text) = <<>> THEN <<>> ELSE <<AfterLines(text)>>)
        ELSE events = Lines(text) /\ buffered = AfterLines(text)
=============================================================================
