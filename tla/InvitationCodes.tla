--------------------------- MODULE InvitationCodes ---------------------------
(***************************************************************************)
(* What the invitation system promises about a code, with no tables, no    *)
(* rows and no requests: a code is issued once, is open for a while, and   *)
(* then is either used by one new account or closed, both for ever.        *)
(* AccountStore and AdminSite are shown to implement this specification.   *)
(***************************************************************************)
CONSTANTS Codes, UserIDs

VARIABLES
    fate,       \* what has become of each code
    holders     \* the pairs <<code, account the code opened>>

Fates == {"unissued", "open", "closed", "used"}

CodesTypeOK ==
    /\ fate \in [Codes -> Fates]
    /\ holders \subseteq Codes \X UserIDs

CodesInit ==
    /\ fate = [c \in Codes |-> "unissued"]
    /\ holders = {}

\* An administrator of the platform hands out a code nobody has seen before.
Issue(c) ==
    /\ fate[c] = "unissued"
    /\ fate' = [fate EXCEPT ![c] = "open"]
    /\ UNCHANGED holders

\* Some open codes stop working: revoked, expired, or deleted with the
\* account or the artist they belong to.
Close(S) ==
    /\ S # {}
    /\ \A c \in S : fate[c] = "open"
    /\ fate' = [c \in Codes |-> IF c \in S THEN "closed" ELSE fate[c]]
    /\ UNCHANGED holders

\* An open code opens one account, one that no code has opened before.
Use(c, u) ==
    /\ fate[c] = "open"
    /\ \A h \in holders : h[2] # u
    /\ fate' = [fate EXCEPT ![c] = "used"]
    /\ holders' = holders \cup {<<c, u>>}

CodesNext ==
    \/ \E c \in Codes : Issue(c)
    \/ \E S \in SUBSET Codes : Close(S)
    \/ \E c \in Codes, u \in UserIDs : Use(c, u)

CodesSpec == CodesInit /\ [][CodesNext]_<<fate, holders>>

=============================================================================
