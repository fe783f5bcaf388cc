------------------------- MODULE MCConnectionSetup -------------------------
(***************************************************************************)
(* Model-checking instances of ConnectionSetup, and what comments and the  *)
(* documentation say of it.                                                *)
(***************************************************************************)
EXTENDS ConnectionSetup, TLC

CONSTANTS c1, c2, c3

\* Two connects share a host; the third one's host has a longer name.
TwoHosts == (c1 :> "web" @@ c2 :> "web" @@ c3 :> "web2")
OneHost == (c1 :> "web" @@ c2 :> "web")
DottedHost == (c1 :> "web.example.org" @@ c2 :> "web.example.org")
Dotted == {"web.example.org"}

\* "Return the exact tmux session id for a name": a session that exists is
\* found, and no connect asks new-session for it again.
ExistingSessionIsFound == \A c \in Connects : pc[c] = "create" => ~Duplicate(c)

\* "Giving each agent (parent + subagents) its own tmux **window**": what
\* disconnect closes is the connection's own window, or nothing.
ClosesOwnWindow ==
    [][\A c \in registered : c \notin registered' =>
            \A w \in Windows \ {Ssh(c)} : place'[w] = place[w]]_vars
=============================================================================
