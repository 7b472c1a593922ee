----------------------------- MODULE RagContext -----------------------------
(***************************************************************************)
(* prompts/ragAssembler.js: assembleRagContext() takes excerpts from the   *)
(* documents a search returns until a token budget is used up, counting    *)
(* four characters as a token.  A document is the length of its text.  The *)
(* source markers between the excerpts are not counted, here as in the     *)
(* code.                                                                   *)
(***************************************************************************)
EXTENDS Naturals, SequencesExt, FiniteSetsExt

CONSTANTS MaxDocs, MaxChars, MaxBudget   \* bounds of the searches tried

ASSUME RagAssumption == {MaxDocs, MaxChars, MaxBudget} \subseteq Nat

CharsPerToken == 4

VARIABLES found,       \* lengths of the documents, best first
          tokenBudget, remainingTokens,
          sources,     \* excerpts taken: [doc, chars]
          seen,        \* documents looked at
          taken,       \* history: characters taken
          assembling   \* "idle", "searching", "taking" or "done"

ragState == <<found, tokenBudget, remainingTokens, sources, seen, taken, assembling>>

RagInit ==
    /\ found = <<>> /\ tokenBudget = 0 /\ remainingTokens = 0
    /\ sources = <<>> /\ seen = 0 /\ taken = 0 /\ assembling = "idle"

-----------------------------------------------------------------------------
\* Math.ceil(length / 4)
EstimateTokens(chars) == (chars + CharsPerToken - 1) \div CharsPerToken

TruncateToTokens(chars, tokens) == Min({chars, tokens * CharsPerToken})

Current == found[seen + 1]
Looking == assembling = "taking" /\ seen < Len(found)

AssembleRagContext ==
    /\ assembling = "idle"
    /\ assembling' = "searching"
    /\ tokenBudget' \in 0..MaxBudget /\ remainingTokens' = tokenBudget'
    /\ UNCHANGED <<found, sources, seen, taken>>

\* The search answers; when it fails, so does the call.
Search ==
    /\ assembling = "searching"
    /\ found' \in SeqOf(0..MaxChars, MaxDocs)
    /\ assembling' = "taking"
    /\ UNCHANGED <<tokenBudget, remainingTokens, sources, seen, taken>>

SearchFails ==
    /\ assembling = "searching"
    /\ assembling' = "done"
    /\ UNCHANGED <<found, tokenBudget, remainingTokens, sources, seen, taken>>

SkipEmpty ==
    /\ Looking /\ Current = 0
    /\ seen' = seen + 1
    /\ UNCHANGED <<found, tokenBudget, remainingTokens, sources, taken, assembling>>

\* An excerpt of the current document, charged as so many tokens.
Excerpt(chars, tokens) ==
    /\ Looking /\ Current > 0 /\ remainingTokens > 0
    /\ sources' = Append(sources, [doc |-> seen + 1, chars |-> chars])
    /\ taken' = taken + chars
    /\ remainingTokens' = remainingTokens - tokens
    /\ seen' = seen + 1
    /\ UNCHANGED <<found, tokenBudget, assembling>>

\* Mutant: the excerpt is as long as its estimate, not as what is left.
TakeWhole ==
    LET estimated == EstimateTokens(Current)
    IN  Excerpt(TruncateToTokens(Current, estimated), Min({remainingTokens, estimated}))

Take ==
    LET take == Min({remainingTokens, EstimateTokens(Current)})
    IN  Excerpt(TruncateToTokens(Current, take), take)

\* The budget is used up, or there are no more documents.
Assembled ==
    /\ assembling = "taking"
    /\ Looking => Current > 0 /\ remainingTokens = 0
    /\ assembling' = "done"
    /\ UNCHANGED <<found, tokenBudget, remainingTokens, sources, seen, taken>>

RagNext ==
    \/ AssembleRagContext \/ Search
    \/ SearchFails \/ SkipEmpty \/ Take \/ Assembled

RagSpec == RagInit /\ [][RagNext]_ragState

-----------------------------------------------------------------------------
\* The excerpts stay within the budget, and nothing is cut or left out while
\* there is budget left: excerpts come from the best documents, in their order,
\* and only the last one may be cut.
BudgetSpentInOrder ==
    /\ taken <= CharsPerToken * (tokenBudget - remainingTokens)
    /\ \A i, j \in 1..Len(sources) : i < j => sources[i].doc < sources[j].doc
    /\ \A i \in 1..Len(sources) :
          \/ sources[i].chars = found[sources[i].doc]
          \/ i = Len(sources) /\ remainingTokens = 0
    /\ \A d \in 1..seen : found[d] > 0 => \E i \in 1..Len(sources) : sources[i].doc = d
    /\ assembling = "done" /\ remainingTokens > 0 => seen = Len(found)
=============================================================================
