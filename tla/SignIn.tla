------------------------------- MODULE SignIn -------------------------------
(***************************************************************************)
(* What the OAuth bridge promises a person who signs in: the tokens go to  *)
(* the client that asked for the login URL the person signed in at, every  *)
(* code is good once, and a sign-in yields at most one code.               *)
(***************************************************************************)
EXTENDS Naturals, FiniteSets

CONSTANTS
    Clients,
    People,
    Urls,      \* login URLs
    SignIns,   \* ids of the sign-ins that were confirmed
    Codes,     \* one-time codes
    Nobody

VARIABLES
    asked,     \* the client a login URL was given to
    signedIn,  \* the URL and the person of a sign-in
    issued,    \* the URL and the person of a code
    handed     \* the clients a code's tokens were handed to

vars == <<asked, signedIn, issued, handed>>

Nowhere == [url |-> Nobody, person |-> Nobody]

(* The sign-ins, or the codes, of a person at a URL. *)
At(url, person, place) == {x \in DOMAIN place : place[x] = [url |-> url, person |-> person]}

Init ==
    /\ asked = [u \in Urls |-> Nobody]
    /\ signedIn = [s \in SignIns |-> Nowhere]
    /\ issued = [c \in Codes |-> Nowhere]
    /\ handed = [c \in Codes |-> << >>]

Ask(u, cl) ==
    /\ asked[u] = Nobody
    /\ asked' = [asked EXCEPT ![u] = cl]
    /\ UNCHANGED <<signedIn, issued, handed>>

Confirm(s, u, p) ==
    /\ signedIn[s] = Nowhere
    /\ asked[u] # Nobody
    /\ signedIn' = [signedIn EXCEPT ![s] = [url |-> u, person |-> p]]
    /\ UNCHANGED <<asked, issued, handed>>

Issue(c, u, p) ==
    /\ issued[c] = Nowhere
    /\ Cardinality(At(u, p, issued)) < Cardinality(At(u, p, signedIn))
    /\ issued' = [issued EXCEPT ![c] = [url |-> u, person |-> p]]
    /\ UNCHANGED <<asked, signedIn, handed>>

HandOver(c) ==
    /\ issued[c] # Nowhere
    /\ handed[c] = << >>
    /\ handed' = [handed EXCEPT ![c] = <<asked[issued[c].url]>>]
    /\ UNCHANGED <<asked, signedIn, issued>>

Next ==
    \/ \E u \in Urls, cl \in Clients : Ask(u, cl)
    \/ \E u \in Urls, p \in People :
          \/ \E s \in SignIns : Confirm(s, u, p)
          \/ \E c \in Codes : Issue(c, u, p)
    \/ \E c \in Codes : HandOver(c)

Spec == Init /\ [][Next]_vars
=============================================================================
