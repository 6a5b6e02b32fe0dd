------------------------------ MODULE SshdAccess ------------------------------
(***************************************************************************)
(* What the server promises about access, without the SSH protocol: a slot *)
(* serves one connection at a time; a connection gets an identity only     *)
(* from a key that is authorized at that moment or from the password; only *)
(* a connection with an identity holds a cli or log connection; and when   *)
(* the connection ends, identity and backend end with it.                  *)
(***************************************************************************)
CONSTANTS Conns, Keys, Password, NoConn, NoKey

VARIABLES
    conn,           \* the connection being served, or NoConn
    who,            \* the credential it presented, or NoKey
    attached,       \* it holds a cli or log connection
    authorized,     \* keys that may log in
    past            \* connections accepted so far

vars == <<conn, who, attached, authorized, past>>

Init ==
    /\ conn = NoConn
    /\ who = NoKey
    /\ attached = FALSE
    /\ authorized \in SUBSET Keys
    /\ past = {}

Accept(c) ==
    /\ conn = NoConn
    /\ c \notin past
    /\ conn' = c
    /\ past' = past \cup {c}
    /\ UNCHANGED <<who, attached, authorized>>

Login(k) ==
    /\ conn # NoConn
    /\ k \in authorized \cup {Password}
    /\ who' = k
    /\ UNCHANGED <<conn, attached, authorized, past>>

\* A request for a shell, a command or the log, granted or not.
Attach(granted) ==
    /\ who # NoKey
    /\ attached' = granted
    /\ UNCHANGED <<conn, who, authorized, past>>

Drop ==
    /\ conn # NoConn
    /\ conn' = NoConn
    /\ who' = NoKey
    /\ attached' = FALSE
    /\ UNCHANGED <<authorized, past>>

SetAuthorized(keys) ==
    /\ authorized' = keys
    /\ UNCHANGED <<conn, who, attached, past>>

Next ==
    \/ \E c \in Conns : Accept(c)
    \/ \E k \in Keys \cup {Password} : Login(k)
    \/ \E granted \in BOOLEAN : Attach(granted)
    \/ Drop
    \/ \E keys \in SUBSET Keys : SetAuthorized(keys)

Spec == Init /\ [][Next]_vars
=============================================================================
