----------------------------- MODULE GuestSession -----------------------------
(***************************************************************************)
(* One guest's browser and who the server takes it for: the session token  *)
(* (internal/session, internal/server/session.go, assets/session.js) and   *)
(* the access gate in front of it (internal/server/access.go).             *)
(*                                                                         *)
(* The token is kept twice, in the cookie ps_session, which every answer   *)
(* writes again, and in localStorage, from which a page presents it after  *)
(* the browser dropped the cookie.  A browser has several tabs and, beside *)
(* the page loads, requests for data (feed, hearts, uploads) under way; an *)
(* answer that arrives late still writes the cookie.  Requests travel,     *)
(* are handled and are answered in steps of their own.                     *)
(***************************************************************************)
EXTENDS Naturals, FiniteSets

CONSTANTS Tabs,    \* tabs of the browser
          Others,  \* connections for requests other than page loads
          Tokens,  \* session tokens the server may draw
          Names,   \* display names
          Faults,  \* what may go wrong: subset of AllFaults
          None     \* no token, no name

AllFaults == {"db", "lost", "drop", "private"}

ASSUME GuestAssumption ==
  /\ Tabs \cap Others = {}
  /\ None \notin Tokens \cup Names
  /\ Tokens \cap Names = {}
  /\ "right" \notin Tokens /\ "wrong" \notin Tokens
  /\ Faults \subseteq AllFaults

Channels == Tabs \cup Others

VARIABLES cookie,  \* ps_session in the browser
          pass,    \* the browser has ps_access
          saved,   \* the token in localStorage
          place,   \* tab -> what it shows or waits for
          req,     \* channel -> its request
          rows,    \* tokens with a row in sessions
          names    \* token -> display_name of its row

browserVars == <<cookie, pass, saved, place>>
serverVars == <<rows, names>>
vars == <<browserVars, req, serverVars>>

\* Page loads; the requests of session.js; the others.
Loads == {"scan", "access", "nav"}
Joins == {"get", "adopt"}
Data == {"api", "name"}

Requests ==
  [kind : Loads \cup Joins \cup Data, cookie : Tokens \cup {None}, pass : BOOLEAN,
   body : Tokens \cup Names \cup {None, "right", "wrong"}, at : {"idle", "sent", "answered"},
   tok : Tokens \cup {None}, out : {"none", "ok", "error", "gate", "grant", "missing"}]

TypeOK ==
  /\ cookie \in Tokens \cup {None}
  /\ pass \in BOOLEAN
  /\ saved \in Tokens \cup {None}
  /\ place \in [Tabs -> {"closed", "loading", "html", "joining", "ready", "gate", "missing", "offline"}]
  /\ req \in [Channels -> Requests]
  /\ rows \subseteq Tokens
  /\ names \in [Tokens -> Names \cup {None}]

\* No request: what is left of an earlier one does not matter.
Idle == [kind |-> "nav", cookie |-> None, pass |-> FALSE, body |-> None, at |-> "idle",
         tok |-> None, out |-> "none"]

Init ==
  /\ cookie = None
  /\ pass = FALSE
  /\ saved = None
  /\ place = [t \in Tabs |-> "closed"]
  /\ req = [c \in Channels |-> Idle]
  /\ rows = {}
  /\ names = [t \in Tokens |-> None]

------------------------------------------------------------------------------
(* The browser sends: the cookies ride along as they are at this moment.   *)

Request(k, b, p) ==
  [kind |-> k, cookie |-> cookie, pass |-> p, body |-> b, at |-> "sent", tok |-> None, out |-> "none"]

\* c may still draw a token if the browser's cookie is ck.  The bound: the
\* guest starts nothing, and loses no cookie, that could run out of tokens.
MayDraw(c, ck) ==
  \/ req[c].at = "sent" /\ req[c].cookie = None /\ req[c].kind # "adopt"
  \/ ck = None /\ c \in Tabs /\ place[c] = "loading" /\ req[c].kind \in {"scan", "access"}
  \/ ck = None /\ c \in Tabs /\ place[c] \in {"loading", "html"} /\ saved = None
Spare(ck) ==
  ck = None => Cardinality({c \in Channels : MayDraw(c, ck)}) < Cardinality(Tokens \ rows)

\* The tab waits for nothing.
Settled(t) == place[t] \in {"closed", "ready", "gate", "missing", "offline"}

\* Opening a page, by its address or with the ?k= of the printed code.
Open(t, k) ==
  /\ Settled(t)
  /\ Spare(cookie)
  /\ place' = [place EXCEPT ![t] = "loading"]
  /\ req' = [req EXCEPT ![t] = Request(k, None, pass)]
  /\ UNCHANGED <<cookie, pass, saved, serverVars>>

\* The password form of the gate page.
TypePassword(t, b) ==
  /\ place[t] = "gate"
  /\ Spare(cookie)
  /\ place' = [place EXCEPT ![t] = "loading"]
  /\ req' = [req EXCEPT ![t] = Request("access", b, pass)]
  /\ UNCHANGED <<cookie, pass, saved, serverVars>>

\* session.js: re-present the saved token, or make first contact.
Join(t) ==
  /\ place[t] = "html"
  /\ place' = [place EXCEPT ![t] = "joining"]
  /\ req' = [req EXCEPT ![t] = IF saved # None THEN Request("adopt", saved, pass)
                                               ELSE Request("get", None, pass)]
  /\ UNCHANGED <<cookie, pass, saved, serverVars>>

\* The scripts of a page fetch, heart and upload without waiting for session.js.
Fetch(c) ==
  /\ req[c].at = "idle"
  /\ \E t \in Tabs : place[t] \in {"html", "joining", "ready"}
  /\ Spare(cookie)
  /\ req' = [req EXCEPT ![c] = Request("api", None, pass)]
  /\ UNCHANGED <<browserVars, serverVars>>

\* The name field is wired once the session request has ended.
ChangeName(c, n) ==
  /\ req[c].at = "idle"
  /\ \E t \in Tabs : place[t] = "ready"
  /\ Spare(cookie)
  /\ req' = [req EXCEPT ![c] = Request("name", n, pass)]
  /\ UNCHANGED <<browserVars, serverVars>>

------------------------------------------------------------------------------
(* The server.                                                             *)

Answer(c, o, tok) == req' = [req EXCEPT ![c].at = "answered", ![c].out = o, ![c].tok = tok]

\* An error page; only session.js can tell it from another answer.
Fail(c, tok) == Answer(c, IF req[c].kind \in Joins THEN "error" ELSE "ok", tok)

\* The right key or password opens the gate.
Opens(r) == r.kind = "scan" \/ (r.kind = "access" /\ r.body = "right")

\* requireAccess of a browser without the access cookie.
Gate(c) ==
  /\ req[c].at = "sent"
  /\ ~req[c].pass
  /\ Answer(c, IF Opens(req[c]) THEN "grant" ELSE "gate", None)
  /\ UNCHANGED <<browserVars, serverVars>>

\* Behind the gate nothing is routed at POST /access.
NoRoute(c) ==
  /\ req[c].at = "sent"
  /\ req[c].pass
  /\ req[c].kind = "access"
  /\ Answer(c, "missing", None)
  /\ UNCHANGED <<browserVars, serverVars>>

\* NewToken: random, here any one that was never stored.
NewToken == IF rows = Tokens THEN {} ELSE {CHOOSE t \in Tokens : t \notin rows}

\* Adopt and Ensure: whose request it is (mutants: the presented token is
\* ignored; the cookie is ignored).
EnsureOnly(r) == IF r.cookie # None THEN {r.cookie} ELSE NewToken
AdoptOnly(r) == IF r.kind = "adopt" THEN {r.body} ELSE NewToken

Resolve(r) ==
  IF r.kind = "adopt" THEN {r.body}
  ELSE IF r.cookie # None THEN {r.cookie}
  ELSE NewToken

\* UpsertSession: an empty name leaves the stored one alone (mutant: it does not).
UpsertAny(tok, n) ==
  /\ rows' = rows \cup {tok}
  /\ names' = [names EXCEPT ![tok] = n]

Upsert(tok, n) ==
  /\ rows' = rows \cup {tok}
  /\ names' = IF n = None THEN names ELSE [names EXCEPT ![tok] = n]

\* bind, its upsert, cookie and lookup, and then the name of handleSession;
\* a name that cannot be stored is only logged.
BindOk(c) ==
  /\ req[c].at = "sent" /\ req[c].pass /\ req[c].kind # "access"
  /\ \E tok \in Resolve(req[c]) :
       /\ \/ Upsert(tok, IF req[c].kind = "name" THEN req[c].body ELSE None)
          \/ "db" \in Faults /\ Upsert(tok, None)
       /\ Answer(c, "ok", tok)
  /\ UNCHANGED browserVars

\* The lookup after the upsert fails: the cookie is set all the same.
LookupFails(c) ==
  /\ "db" \in Faults
  /\ req[c].at = "sent" /\ req[c].pass /\ req[c].kind # "access"
  /\ \E tok \in Resolve(req[c]) : Upsert(tok, None) /\ Fail(c, tok)
  /\ UNCHANGED browserVars

\* The upsert fails: no cookie (mutant: the cookie is written first).
CookieFirst(c) ==
  /\ "db" \in Faults
  /\ req[c].at = "sent" /\ req[c].pass /\ req[c].kind # "access"
  /\ \E tok \in Resolve(req[c]) : Fail(c, tok)
  /\ UNCHANGED <<browserVars, serverVars>>

UpsertFails(c) ==
  /\ "db" \in Faults
  /\ req[c].at = "sent" /\ req[c].pass /\ req[c].kind # "access"
  /\ Fail(c, None)
  /\ UNCHANGED <<browserVars, serverVars>>

------------------------------------------------------------------------------
(* The browser hears.                                                      *)

SetCookie(r) == cookie' = IF r.tok # None THEN r.tok ELSE cookie

Free(c) == req' = [req EXCEPT ![c] = Idle]

\* The gate's redirect, with the access cookie it came with (mutant: without).
FollowBare(t) ==
  /\ req[t].at = "answered" /\ req[t].out = "grant"
  /\ req' = [req EXCEPT ![t] = Request("nav", None, pass)]
  /\ UNCHANGED <<browserVars, serverVars>>

Follow(t) ==
  /\ req[t].at = "answered" /\ req[t].out = "grant"
  /\ pass' = TRUE
  /\ req' = [req EXCEPT ![t] = Request("nav", None, TRUE)]
  /\ UNCHANGED <<cookie, saved, place, serverVars>>

\* A page arrives: one of the guest pages, with or without a name; the gate
\* page, which has no scripts; or "not found".
ShowPage(t) ==
  /\ req[t].at = "answered" /\ req[t].out # "grant" /\ req[t].kind \in Loads
  /\ place' = [place EXCEPT ![t] = IF req[t].out \in {"gate", "missing"} THEN req[t].out ELSE "html"]
  /\ SetCookie(req[t])
  /\ Free(t)
  /\ UNCHANGED <<pass, saved, serverVars>>

\* The answer to session.js.  The gate page and errors are no JSON: nothing
\* is saved.  Storing may fail (private mode).
Joined(t) ==
  /\ req[t].at = "answered" /\ req[t].kind \in Joins
  /\ place' = [place EXCEPT ![t] = "ready"]
  /\ SetCookie(req[t])
  /\ \/ saved' = IF req[t].out = "ok" THEN req[t].tok ELSE saved
     \/ "private" \in Faults /\ saved' = saved
  /\ Free(t)
  /\ UNCHANGED <<pass, serverVars>>

Fetched(c) ==
  /\ req[c].at = "answered" /\ req[c].kind \in Data
  /\ SetCookie(req[c])
  /\ Free(c)
  /\ UNCHANGED <<pass, saved, place, serverVars>>

\* The connection breaks, before or after the server has worked.
Lost(c) ==
  /\ "lost" \in Faults
  /\ req[c].at # "idle"
  /\ place' = [t \in Tabs |-> IF t # c THEN place[t]
                              ELSE IF place[t] = "joining" THEN "ready" ELSE "offline"]
  /\ Free(c)
  /\ UNCHANGED <<cookie, pass, saved, serverVars>>

\* The browser drops the session cookie (Private Relay, ITP), or all cookies.
Drop ==
  /\ "drop" \in Faults
  /\ cookie # None
  /\ Spare(None)
  /\ cookie' = None
  /\ pass' \in {pass, FALSE}
  /\ UNCHANGED <<saved, place, req, serverVars>>

------------------------------------------------------------------------------
Handle(c) == Gate(c) \/ NoRoute(c) \/ BindOk(c) \/ LookupFails(c) \/ UpsertFails(c)

Hear(t) == Follow(t) \/ ShowPage(t) \/ Joined(t)

Next ==
  \/ \E t \in Tabs : Hear(t) \/ Join(t)
                     \/ (\E k \in {"nav", "scan"} : Open(t, k))
                     \/ (\E b \in {"right", "wrong"} : TypePassword(t, b))
  \/ \E c \in Channels : Handle(c) \/ Lost(c)
  \/ \E c \in Others : Fetch(c) \/ Fetched(c) \/ \E n \in Names : ChangeName(c, n)
  \/ Drop

Spec == Init /\ [][Next]_vars

\* The server answers a tab, and the tab goes on with what it is given.
Fairness == \A t \in Tabs : WF_vars(Handle(t) \/ Hear(t) \/ Join(t))

FairSpec == Spec /\ Fairness

------------------------------------------------------------------------------
(* A token the browser holds or is about to hold has its row: an upload or *)
(* a heart under it finds what its foreign key asks for, whatever failed   *)
(* on the way (session.go:93-102).                                         *)
RowBacked ==
  /\ {cookie, saved} \subseteq rows \cup {None}
  /\ \A c \in Channels : {req[c].cookie, req[c].tok} \subseteq rows \cup {None}

(* "set once and remembered" (F10): no visit, upload or late request       *)
(* empties a name that is stored (sessions.go:19-21).                      *)
NamesStay == [][\A t \in Tokens : names[t] # None => names'[t] # None]_vars

\* c's request was sent by a browser that did not present s.
Unaware(c, s) ==
  /\ req[c].at # "idle"
  /\ IF req[c].kind = "adopt" THEN req[c].body # s ELSE req[c].cookie # s

(* The saved token is the guest's identity for the day: whatever becomes   *)
(* of the cookie, it changes only through the answer to a session request  *)
(* that was sent without it, two tabs making first contact (session.js:5-9).*)
SavedStays ==
  [][saved # None /\ saved' # saved =>
       \E t \in Tabs : req[t].kind \in Joins /\ Unaware(t, saved)]_vars

(* Once cookie and saved token agree, only an answer to a request sent     *)
(* under another token or none can set them apart: the late answer that    *)
(* splits the guest's uploads.                                             *)
CookieStays ==
  [][cookie # None /\ cookie = saved /\ cookie' \notin {saved, None} =>
       \E c \in Channels : Unaware(c, saved)]_vars

(* Scan to enter: the printed code leads to a page with its session        *)
(* settled, over the redirect and the page's scripts, never to the gate,   *)
(* unless the connection breaks (access.go:60-71).                         *)
ScanEnters ==
  \A t \in Tabs :
    place[t] = "loading" /\ req[t].kind = "scan" ~> place[t] \in {"ready", "offline"}

------------------------------------------------------------------------------
(* An answer names the token the request presented.                        *)
AnswersTrue ==
  \A c \in Channels :
    /\ req[c].at # "idle" /\ req[c].kind = "adopt" => req[c].body \in rows
    /\ req[c].tok # None /\ req[c].kind = "adopt" => req[c].tok = req[c].body
    /\ req[c].tok # None /\ req[c].kind # "adopt" /\ req[c].cookie # None =>
         req[c].tok = req[c].cookie
    /\ req[c].kind \in Joins /\ req[c].out = "ok" => req[c].tok # None

\* Which requests a channel carries and what a tab waits for.
Lines ==
  /\ \A c \in Others : req[c].at # "idle" => req[c].kind \in Data
  /\ \A t \in Tabs : place[t] = "loading" <=> req[t].at # "idle" /\ req[t].kind \in Loads
  /\ \A t \in Tabs : place[t] = "joining" <=> req[t].at # "idle" /\ req[t].kind \in Joins
  /\ \A c \in Channels : req[c].at = "idle" => req[c].kind = "nav"
  /\ \A c \in Channels : req[c].kind = "name" => req[c].body \in Names
  /\ \A c \in Channels : req[c].out = "grant" => Opens(req[c])

IInv == TypeOK /\ RowBacked /\ AnswersTrue /\ Lines
==============================================================================
