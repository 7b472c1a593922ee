--------------------------- MODULE FetchedValues ---------------------------
(***************************************************************************)
(* A value that another service serves and that changes there: a secret    *)
(* (config/secretsManager.js) or the signing keys (auth/oidcClient.js).    *)
(* It is kept for a time and shared by everything in the process.  Nothing *)
(* joins or orders the fetches of readers that find it out of date at the  *)
(* same time, and a fetch may take any time.                               *)
(***************************************************************************)
EXTENDS Naturals

CONSTANTS Readers,
          MaxVersion,     \* bound: changes at the service
          MaxMisses,      \* bound: fetches that fail
          KeyIds,
          KeySets         \* KeySets[v]: the signing keys of version v

Versions == 0..MaxVersion

\* Version 0 stands for nothing kept; the first that is served has keys.
ASSUME FetchAssumption ==
    /\ MaxVersion \in Nat \ {0} /\ MaxMisses \in Nat
    /\ KeySets \in [Versions -> SUBSET KeyIds] /\ KeySets[0] = {}

VARIABLES kind,     \* which of the two this is about
          served,   \* the version the service answers with now
          kept,     \* the version in the cache
          fresh,    \* its time to live has not run out
          reader,   \* reader[r]: what a caller of getSecret or verifyToken does
          misses

fetchState == <<kind, served, kept, fresh, reader, misses>>

Ended == {"returned", "accepted", "refused", "unknown", "threw"}
NoReader == [pc |-> "returned", kid |-> "none", got |-> 0, since |-> 0]
Reader == [pc : Ended \cup {"asking", "answered", "stored", "has"},
           kid : KeyIds \cup {"none"}, got : Versions, since : Versions]

FetchTypeOK ==
    /\ kind \in {"secret", "keys"}
    /\ served \in Versions /\ kept \in Versions /\ fresh \in BOOLEAN
    /\ reader \in [Readers -> Reader]
    /\ misses \in 0..MaxMisses

FetchInit ==
    /\ kind \in {"secret", "keys"}
    /\ served = 1 /\ kept = 0 /\ fresh = FALSE
    /\ reader = [r \in Readers |-> NoReader]
    /\ misses = 0

-----------------------------------------------------------------------------
ReaderAt(r, pc) == reader[r].pc = pc
ReaderGoes(r, pc) == reader' = [reader EXCEPT ![r].pc = pc]
ReaderHas(r, v) == reader' = [reader EXCEPT ![r].pc = "has", ![r].got = v]

\* The service changes the value; the time to live runs out.
Rotate ==
    /\ served < MaxVersion
    /\ served' = served + 1
    /\ UNCHANGED <<kind, kept, fresh, reader, misses>>

Lapse ==
    /\ fresh
    /\ fresh' = FALSE
    /\ UNCHANGED <<kind, served, kept, reader, misses>>

\* An empty set of keys counts as no cache, a secret that is absent does not.
Usable == fresh /\ (kind = "keys" => KeySets[kept] # {})

\* The oldest version a reader may come to see: the one kept, or the answer of
\* another reader that is yet to be kept.
Oldest ==
    LET seen == {kept} \cup
                {reader[r].got : r \in {s \in Readers : ReaderAt(s, "answered")}}
    IN CHOOSE v \in seen : \A w \in seen : v =< w

Starts(r, kid, since) ==
    /\ reader[r].pc \in Ended
    /\ reader' = [reader EXCEPT ![r] = [pc |-> IF Usable THEN "has" ELSE "asking", kid |-> kid,
                                        got |-> IF Usable THEN kept ELSE 0, since |-> since]]
    /\ UNCHANGED <<kind, served, kept, fresh, misses>>

\* A secret that is not usable is the one this reader fetches itself.
GetSecret(r) == kind = "secret" /\ Starts(r, "none", IF Usable THEN kept ELSE served)

\* verifyToken() reads the id of the key from the token, then awaits getJwks().
VerifyToken(r, kid) == kind = "keys" /\ Starts(r, kid, Oldest)

Answered(r) ==
    /\ ReaderAt(r, "asking")
    /\ reader' = [reader EXCEPT ![r].pc = "answered", ![r].got = served]
    /\ UNCHANGED <<kind, served, kept, fresh, misses>>

SecretAnswered(r) == kind = "secret" /\ Answered(r)

\* For keys two requests are made: the first only tells the address of the second.
KeysAnswered(r) == kind = "keys" /\ Answered(r)

Misses(r) ==
    /\ ReaderAt(r, "asking") /\ misses < MaxMisses
    /\ misses' = misses + 1
    /\ UNCHANGED <<kind, served, fresh>>

SecretFails(r) ==
    /\ kind = "secret" /\ Misses(r)
    /\ ReaderGoes(r, "threw")
    /\ UNCHANGED kept

\* Mutant: keys that cannot be refreshed are dropped.
KeysFailForgetting(r) ==
    /\ kind = "keys" /\ Misses(r)
    /\ ReaderGoes(r, "threw")
    /\ kept' = 0

\* A failed fetch throws, unless there are keys: however old, they are used.
KeysFail(r) ==
    /\ kind = "keys" /\ Misses(r)
    /\ IF KeySets[kept] # {} THEN ReaderHas(r, kept) ELSE ReaderGoes(r, "threw")
    /\ UNCHANGED kept

\* The answer is kept, whatever was kept since it was asked for.
Kept(r, pc) ==
    /\ ReaderAt(r, "answered")
    /\ kept' = reader[r].got
    /\ fresh' = TRUE
    /\ ReaderGoes(r, pc)
    /\ UNCHANGED <<kind, served, misses>>

KeepSecret(r) == kind = "secret" /\ Kept(r, "has")

\* fetchJwks returns to getJwks, which is resumed in a microtask of its own ...
KeepKeys(r) == kind = "keys" /\ Kept(r, "stored")

\* ... and returns the keys that are kept by then.
Reread(r) ==
    /\ ReaderAt(r, "stored")
    /\ ReaderHas(r, kept)
    /\ UNCHANGED <<kind, served, kept, fresh, misses>>

ReturnSecret(r) ==
    /\ kind = "secret" /\ ReaderAt(r, "has")
    /\ ReaderGoes(r, "returned")
    /\ UNCHANGED <<kind, served, kept, fresh, misses>>

\* The token's key is looked up.  Whether its signature, issuer and time are right
\* is jsonwebtoken's answer, from the key alone.
CheckToken(r) ==
    /\ kind = "keys" /\ ReaderAt(r, "has")
    /\ \/ reader[r].kid \notin KeySets[reader[r].got] /\ ReaderGoes(r, "unknown")
       \/ /\ reader[r].kid \in KeySets[reader[r].got]
          /\ \E verdict \in {"accepted", "refused"} : ReaderGoes(r, verdict)
    /\ UNCHANGED <<kind, served, kept, fresh, misses>>

FetchNext ==
    \/ Rotate \/ Lapse
    \/ \E r \in Readers :
          \/ GetSecret(r) \/ SecretAnswered(r) \/ SecretFails(r) \/ KeepSecret(r)
          \/ ReturnSecret(r)
          \/ \E kid \in KeyIds : VerifyToken(r, kid)
          \/ KeysAnswered(r) \/ KeysFail(r) \/ KeepKeys(r) \/ Reread(r) \/ CheckToken(r)

FetchSpec == FetchInit /\ [][FetchNext]_fetchState

-----------------------------------------------------------------------------
\* A refresh of one reader may put an older answer over a newer one.  All the same
\* a token is refused for its key, or for want of keys, only if some version that
\* was served since the oldest in sight at its start lacked that key; and nobody
\* gets a secret older than what was kept, or, if that was out of date, older
\* than what was served when he asked.
StableKeysServed ==
    /\ FetchTypeOK
    /\ \A r \in Readers : LET t == reader[r] IN
          /\ kind = "keys" /\ t.pc \in {"unknown", "threw"} =>
                \E v \in t.since..served : t.kid \notin KeySets[v]
          /\ t.pc \in {"has", "returned", "accepted", "refused"} => t.got >= t.since
=============================================================================
