---------------------------- MODULE LoginServer ----------------------------
(***************************************************************************)
(* The login server (src/ServerLogin/login_server.cpp).  It asks the db    *)
(* server for a user's password, then for the user, and passes the user on *)
(* to the gate and to the client.  What waits for an answer is kept per    *)
(* user, not per request.  A password is right or wrong; its hash and the  *)
(* user's are taken to be unique and not 0.  Its receive queue does not    *)
(* keep the order of messages, nor does the db server's: of what is on its *)
(* way over a channel any message may be handled next.  In the model each  *)
(* message carries the connection that asked, "from", which tells messages *)
(* apart and which no step depends on: the code knows a connection by its  *)
(* descriptor, and a descriptor is given to a new connection when the one  *)
(* before has closed.                                                      *)
(***************************************************************************)
EXTENDS Sequences, Players

CONSTANTS Clients,        \* the connections that ask to log in
          Fds             \* their descriptors

VARIABLES m_usrfd,        \* the descriptor of the connection that asked last for a user
          m_waitverify,   \* the password that waits to be compared
          requests,       \* LOGIN_REQUESTs on their way or in the receive queue
          loginToDb,      \* GETPASS and GET_ALLINFO for the db server
          passwords,      \* GETPASS answers
          infos,          \* GET_ALLINFO answers
          toGateServer,   \* GET_ALLINFO for the gate
          answered,       \* for each connection, the last GET_ALLINFO it got, or None
          fdOf,           \* the descriptor each connection was given, or None
          left,           \* the connections whose client has closed
          gateLeft,       \* the gate's connection has ended
          loginRunning    \* the process is there

loginVars == <<m_usrfd, m_waitverify, requests, loginToDb, passwords, infos, toGateServer,
               answered, fdOf, left, gateLeft, loginRunning>>
connections == <<fdOf, left, gateLeft>>

\* The open connection with this descriptor, if there is one.
Holders(fd) == {c \in Clients \ left : fdOf[c] = fd}

Passwords == {"right", "wrong"}

Question(type, u, c) == [type |-> type, usr |-> u, from |-> c]

\* Faulty variant: a user who was let in is answered as the last time.
RequestAnsweredAgain(r) ==
    /\ LET known == {c \in Clients : answered[c] # None /\ answered[c].usr = r.usr}
       IN /\ m_usrfd' = [m_usrfd EXCEPT ![r.usr] = r.m_from]
          /\ m_waitverify' = [m_waitverify EXCEPT ![r.usr] = IF @ = None THEN r.pass ELSE @]
          /\ infos' = infos \cup {answered[c] : c \in known}
          /\ loginToDb' = IF known # {} THEN loginToDb
                           ELSE loginToDb \cup {Question("GETPASS", r.usr, r.from)}
    /\ requests' = requests \ {r}
    /\ UNCHANGED <<passwords, toGateServer, answered, connections, loginRunning>>

\* m_waitverify.insert keeps a password that is there already.
login_request(r) ==
    /\ m_usrfd' = [m_usrfd EXCEPT ![r.usr] = r.m_from]
    /\ m_waitverify' = [m_waitverify EXCEPT ![r.usr] = IF @ = None THEN r.pass ELSE @]
    /\ loginToDb' = loginToDb \cup {Question("GETPASS", r.usr, r.from)}
    /\ requests' = requests \ {r}
    /\ UNCHANGED <<passwords, infos, toGateServer, answered, connections, loginRunning>>

\* Faulty variant: a wrong password is left to wait.
VerifyKeepsWrong(p) ==
    /\ IF m_waitverify[p.usr] = "right"
         THEN /\ loginToDb' = loginToDb \cup {Question("GET_ALLINFO", p.usr, p.from)}
              /\ UNCHANGED m_waitverify
         ELSE UNCHANGED <<m_waitverify, loginToDb>>
    /\ passwords' = passwords \ {p}
    /\ UNCHANGED <<m_usrfd, requests, infos, toGateServer, answered, connections, loginRunning>>

\* Faulty variant: whoever is known may go on.
VerifyUserOnly(p) ==
    /\ loginToDb' = loginToDb \cup {Question("GET_ALLINFO", p.usr, p.from)}
    /\ passwords' = passwords \ {p}
    /\ UNCHANGED <<m_usrfd, m_waitverify, requests, infos, toGateServer, answered,
                   connections, loginRunning>>

\* A password that was right stays there.  The entry that operator[] makes
\* where there is none is erased at once.
login_verify(p) ==
    /\ IF m_waitverify[p.usr] = "right"
         THEN /\ loginToDb' = loginToDb \cup {Question("GET_ALLINFO", p.usr, p.from)}
              /\ UNCHANGED m_waitverify
         ELSE /\ m_waitverify' = [m_waitverify EXCEPT ![p.usr] = None]
              /\ UNCHANGED loginToDb
    /\ passwords' = passwords \ {p}
    /\ UNCHANGED <<m_usrfd, requests, infos, toGateServer, answered, connections, loginRunning>>

-----------------------------------------------------------------------------
(* login_success writes to the gate, and twice to the descriptor of the    *)
(* connection that asked last for this user, whoever has it by now.  The   *)
(* errors of the writes are not looked at, and nobody handles SIGPIPE.     *)

WritesToGate(m) ==
    IF gateLeft THEN UNCHANGED toGateServer ELSE toGateServer' = toGateServer \cup {m}

WritesToClient(m) ==
    answered' = [c \in Clients |-> IF c \in Holders(m_usrfd[m.usr]) THEN m ELSE answered[c]]

login_success(m) ==
    /\ WritesToGate(m) /\ WritesToClient(m)
    /\ infos' = infos \ {m}
    /\ UNCHANGED <<m_usrfd, m_waitverify, requests, loginToDb, passwords, connections, loginRunning>>

\* SIGPIPE: the gate is gone, or the client is, or it goes between the two writes.
SuccessDies(m) ==
    /\ loginRunning' = FALSE
    /\ infos' = infos \ {m}
    /\ \/ gateLeft /\ UNCHANGED <<toGateServer, answered, left>>
       \/ /\ WritesToGate(m) /\ WritesToClient(m)
          /\ left' = left \cup Holders(m_usrfd[m.usr])
    /\ UNCHANGED <<m_usrfd, m_waitverify, requests, loginToDb, passwords, fdOf, gateLeft>>

LoginInit ==
    /\ m_usrfd = [u \in Users |-> None]
    /\ m_waitverify = [u \in Users |-> None]
    /\ requests = {} /\ loginToDb = {} /\ passwords = {} /\ infos = {}
    /\ toGateServer = {}
    /\ answered = [c \in Clients |-> None]
    /\ fdOf = [c \in Clients |-> None] /\ left = {} /\ gateLeft = FALSE /\ loginRunning = TRUE

LoginStep ==
    /\ loginRunning
    /\ \/ \E r \in requests : login_request(r)
       \/ \E p \in passwords : login_verify(p)
       \/ \E m \in infos : login_success(m) \/ SuccessDies(m)

-----------------------------------------------------------------------------

LoginTypeOK ==
    /\ m_usrfd \in [Users -> Fds \cup {None}] /\ fdOf \in [Clients -> Fds \cup {None}]
    /\ m_waitverify \in [Users -> Passwords \cup {None}]
    /\ left \subseteq Clients /\ gateLeft \in BOOLEAN /\ loginRunning \in BOOLEAN
=============================================================================
