---------------------------- MODULE ProfileCache ----------------------------
(***************************************************************************)
(* pkg/signal/profile.go and client.go: the per-contact caches behind      *)
(* sealed sender.  The profile key and the unidentified access key (UAK)   *)
(* derived from it are written by inbound messages, by FetchProfile, by    *)
(* the storage sync, by the import of a backup and by the user, and each   *)
(* of them may run while another is between two sections of the lock mu.   *)
(*                                                                         *)
(* A profile key is its generation, NoKey for none; the UAK of a key is    *)
(* the same number.                                                        *)
(***************************************************************************)
EXTENDS Integers

CONSTANTS Calls,      \* goroutines of the client
          Contacts,   \* ACIs
          MaxKey      \* profile keys of a contact are 1..MaxKey

ASSUME ProfileAssumption == MaxKey \in Nat

VARIABLES
    knownProfileKeys, knownUAKs,  \* Client.knownProfileKeys, knownUAKs
    allowSealedSender,            \* Client.allowSealedSender
    pc,                           \* program counter of each goroutine
    peer, key                     \* the contact and the key it works on

profileVars == <<knownProfileKeys, knownUAKs, allowSealedSender>>

NoKey == 0
Explicit == -1      \* a UAK given by SetRecipientUAK
ProfileKeys == 1..MaxKey

ProfileInit ==
    /\ knownProfileKeys = [a \in Contacts |-> NoKey]
    /\ knownUAKs = [a \in Contacts |-> NoKey]
    /\ allowSealedSender = [a \in Contacts |-> FALSE]

ProfileTypeOK ==
    /\ knownProfileKeys \in [Contacts -> ProfileKeys \cup {NoKey}]
    /\ knownUAKs \in [Contacts -> ProfileKeys \cup {NoKey, Explicit}]
    /\ allowSealedSender \in [Contacts -> BOOLEAN]
    /\ peer \in [Calls -> Contacts]
    /\ key \in [Calls -> ProfileKeys \cup {NoKey}]

Goto(c, label) == pc' = [pc EXCEPT ![c] = label]
Forget(c) == key' = [key EXCEPT ![c] = NoKey]
Idle(c) == pc[c] = "idle"

-----------------------------------------------------------------------------
storeRecipientProfileKey(a, k) ==
    /\ knownProfileKeys' = [knownProfileKeys EXCEPT ![a] = k]
    /\ knownUAKs' = [knownUAKs EXCEPT ![a] = k]

\* SetRecipientProfileKey; no key removes both entries.
SetRecipientProfileKey(a, k) ==
    /\ storeRecipientProfileKey(a, k)
    /\ UNCHANGED <<allowSealedSender, pc, peer, key>>

SetRecipientUAK(a, u) ==
    /\ knownUAKs' = [knownUAKs EXCEPT ![a] = u]
    /\ UNCHANGED <<knownProfileKeys, allowSealedSender, pc, peer, key>>

\* FetchProfile up to its request: the key is the caller's or the cached one.
FetchProfile(c, a, given) ==
    LET k == IF given = NoKey THEN knownProfileKeys[a] ELSE given IN
    /\ Idle(c)
    /\ k # NoKey
    /\ peer' = [peer EXCEPT ![c] = a]
    /\ key' = [key EXCEPT ![c] = k]
    /\ Goto(c, "profile")
    /\ UNCHANGED profileVars

\* ... the answer is decrypted and the key cached,
FetchProfileKey(c) ==
    /\ pc[c] = "profile"
    /\ storeRecipientProfileKey(peer[c], key[c])
    /\ Goto(c, "allow")
    /\ UNCHANGED <<allowSealedSender, peer, key>>

\* ... then, in a second section of the lock, the server's flag.
FetchProfileFlag(c) ==
    /\ pc[c] = "allow"
    /\ \E unrestricted \in BOOLEAN :
         allowSealedSender' = [allowSealedSender EXCEPT ![peer[c]] = unrestricted]
    /\ Goto(c, "idle") /\ Forget(c)
    /\ UNCHANGED <<knownProfileKeys, knownUAKs, peer>>

\* ensureRecipientUAK, before every send: it looks under the lock,
ensureRecipientUAK(c, a) ==
    /\ Idle(c)
    /\ knownUAKs[a] = NoKey
    /\ knownProfileKeys[a] # NoKey
    /\ peer' = [peer EXCEPT ![c] = a]
    /\ key' = [key EXCEPT ![c] = knownProfileKeys[a]]
    /\ Goto(c, "ensure")
    /\ UNCHANGED profileVars

\* Mutant: only the UAK is written back.
EnsureUAKOnly(c) ==
    /\ pc[c] = "ensure"
    /\ knownUAKs' = [knownUAKs EXCEPT ![peer[c]] = key[c]]
    /\ Goto(c, "idle") /\ Forget(c)
    /\ UNCHANGED <<knownProfileKeys, allowSealedSender, peer>>

\* ... and stores the key it saw after it has released it.
EnsureStore(c) ==
    /\ pc[c] = "ensure"
    /\ storeRecipientProfileKey(peer[c], key[c])
    /\ Goto(c, "idle") /\ Forget(c)
    /\ UNCHANGED <<allowSealedSender, peer>>

ProfileBegins(c) ==
    \E a \in Contacts :
        \/ \E k \in ProfileKeys \cup {NoKey} : FetchProfile(c, a, k)
        \/ ensureRecipientUAK(c, a)

ProfileStep(c) == FetchProfileKey(c) \/ FetchProfileFlag(c) \/ EnsureStore(c)

\* The application sets or removes the cached keys.
ProfileSet ==
    \E a \in Contacts :
        \/ \E k \in ProfileKeys \cup {NoKey} : SetRecipientProfileKey(a, k)
        \/ \E u \in {NoKey, Explicit} : SetRecipientUAK(a, u)

-----------------------------------------------------------------------------
\* The UAK a sealed send will use is the one of the cached profile key, or
\* one the application gave: the two maps never tell of different keys,
\* however writers of the caches interleave.
UAKFollowsKey ==
    \A a \in Contacts : knownUAKs[a] \in {NoKey, Explicit, knownProfileKeys[a]}

\* ensureRecipientUAK "populates knownUAKs from a stored profile key": the key
\* itself is the one that is stored.  What it writes back is the one it read
\* before it released the lock, over a newer one or one that was removed.
EnsureKeepsKey ==
    [][\A c \in Calls :
         /\ pc[c] = "ensure" /\ pc'[c] = "idle"
         /\ knownProfileKeys'[peer[c]] = key[c]
         => knownProfileKeys[peer[c]] = key[c]]_<<profileVars, pc, peer, key>>
=============================================================================
