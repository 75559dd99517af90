-------------------------- MODULE GuestSessionProofs --------------------------
(* The guest's identity, for any number of tabs, connections and tokens.   *)
EXTENDS GuestSession, TLAPS

USE GuestAssumption

\* The parts of a request that is sent, answered or over.
LEMMA RequestType ==
  ASSUME TypeOK, NEW k \in Loads \cup Joins \cup Data,
         NEW b \in Tokens \cup Names \cup {None, "right", "wrong"}, NEW p \in BOOLEAN
  PROVE  Request(k, b, p) \in Requests /\ Idle \in Requests
BY DEF TypeOK, Request, Requests, Idle, Loads

\* The token a request is bound to (bind's argument).
LEMMA ResolveFacts ==
  ASSUME IInv, NEW c \in Channels, req[c].at # "idle", NEW tok \in Resolve(req[c])
  PROVE  /\ tok \in Tokens
         /\ req[c].kind = "adopt" => tok = req[c].body
         /\ req[c].kind # "adopt" /\ req[c].cookie # None => tok = req[c].cookie
<1>1. CASE req[c].kind = "adopt"
  BY <1>1 DEF Resolve, IInv, AnswersTrue, TypeOK
<1>2. CASE req[c].kind # "adopt" /\ req[c].cookie # None
  BY <1>2 DEF Resolve, IInv, TypeOK, Requests
<1>3. CASE req[c].kind # "adopt" /\ req[c].cookie = None
  <2>1. rows # Tokens /\ tok = CHOOSE t \in Tokens : t \notin rows
    BY <1>3 DEF Resolve, NewToken
  <2>2. \E t \in Tokens : t \notin rows
    BY <2>1 DEF IInv, TypeOK
  <2> QED BY <1>3, <2>1, <2>2
<1> QED BY <1>1, <1>2, <1>3

\* The closed browser.
LEMMA InitIInv == Init => IInv
<1> SUFFICES ASSUME Init PROVE IInv
  OBVIOUS
<1>1. /\ Idle \in Requests /\ Idle.at = "idle" /\ Idle.kind = "nav"
      /\ Idle.cookie = None /\ Idle.tok = None /\ Idle.out = "none"
  BY DEF Idle, Requests, Loads
<1>2. \A c \in Channels : req[c] = Idle
  BY DEF Init
<1>3. TypeOK
  BY <1>1 DEF Init, TypeOK
<1>4. RowBacked
  BY <1>1, <1>2 DEF Init, RowBacked
<1>5. AnswersTrue
  BY <1>1, <1>2 DEF AnswersTrue
<1>6. Lines
  BY <1>1, <1>2 DEF Init, Lines, Channels
<1> QED BY <1>3, <1>4, <1>5, <1>6 DEF IInv

(* A page, a session request or a request of a script is sent: it carries  *)
(* what the browser holds.                                                 *)
LEMMA SendIInv ==
  ASSUME IInv, NEW c \in Channels, NEW k \in Loads \cup Joins \cup Data,
         NEW b \in Tokens \cup Names \cup {None, "right", "wrong"}, NEW p \in BOOLEAN,
         req' = [req EXCEPT ![c] = Request(k, b, p)],
         UNCHANGED <<cookie, saved, rows, names>>, pass' \in BOOLEAN,
         k = "adopt" => b \in rows, k = "name" => b \in Names,
         c \in Others => k \in Data /\ UNCHANGED place,
         c \in Tabs => \/ k \in Loads /\ place' = [place EXCEPT ![c] = "loading"]
                       \/ k \in Joins /\ place' = [place EXCEPT ![c] = "joining"]
  PROVE  IInv'
<1>1. Request(k, b, p) \in Requests
  BY RequestType DEF IInv
<1>2. TypeOK'
  BY <1>1 DEF IInv, TypeOK, Channels
<1>3. \A d \in Channels : req'[d] = IF d = c THEN Request(k, b, p) ELSE req[d]
  BY DEF IInv, TypeOK
<1>4. /\ Request(k, b, p).kind = k /\ Request(k, b, p).cookie = cookie /\ Request(k, b, p).body = b
      /\ Request(k, b, p).at = "sent" /\ Request(k, b, p).tok = None /\ Request(k, b, p).out = "none"
  BY DEF Request
<1>5. RowBacked'
  BY <1>3, <1>4 DEF IInv, RowBacked
<1>6. AnswersTrue'
  BY <1>3, <1>4 DEF IInv, AnswersTrue
<1>7. Lines'
  BY <1>3, <1>4 DEF IInv, TypeOK, Lines, Channels, Loads, Joins, Data
<1> QED BY <1>2, <1>5, <1>6, <1>7 DEF IInv

(* The server answers: with no token, or with the request's own, stored.   *)
LEMMA AnswerIInv ==
  ASSUME IInv, NEW c \in Channels, NEW o \in {"ok", "error", "gate", "grant", "missing"},
         NEW tok \in Tokens \cup {None}, req[c].at = "sent", Answer(c, o, tok),
         UNCHANGED browserVars, tok = None \/ tok \in rows', rows \subseteq rows',
         rows' \subseteq Tokens, names' \in [Tokens -> Names \cup {None}],
         tok # None /\ req[c].kind = "adopt" => tok = req[c].body,
         tok # None /\ req[c].kind # "adopt" /\ req[c].cookie # None => tok = req[c].cookie,
         o = "grant" => Opens(req[c]),
         o = "ok" /\ req[c].kind \in Joins => tok # None
  PROVE  IInv'
<1> DEFINE a == [req[c] EXCEPT !.at = "answered", !.out = o, !.tok = tok]
<1>1. req[c] \in Requests /\ req' = [req EXCEPT ![c] = a]
  BY DEF IInv, TypeOK, Answer
<1>2. /\ a \in Requests /\ a.kind = req[c].kind /\ a.cookie = req[c].cookie /\ a.body = req[c].body
      /\ a.at = "answered" /\ a.tok = tok /\ a.out = o
  <2>1. a \in Requests
    BY <1>1 DEF Requests
  <2>2. DOMAIN req[c] = {"kind", "cookie", "pass", "body", "at", "tok", "out"}
    BY <1>1 DEF Requests
  <2> QED BY <2>1, <2>2
<1> HIDE DEF a
<1>3. TypeOK'
  BY <1>1, <1>2 DEF IInv, TypeOK, browserVars
<1>4. \A d \in Channels : req'[d] = IF d = c THEN a ELSE req[d]
  BY <1>1 DEF IInv, TypeOK
<1>5. RowBacked'
  BY <1>2, <1>4 DEF IInv, RowBacked, browserVars
<1>6. AnswersTrue'
  BY <1>2, <1>4 DEF IInv, AnswersTrue
<1>7. Lines'
  BY <1>2, <1>4 DEF IInv, Lines, Opens, browserVars, Channels
<1> QED BY <1>3, <1>5, <1>6, <1>7 DEF IInv

(* A request is over: the browser takes the token of its answer, or none.  *)
LEMMA OverIInv ==
  ASSUME IInv, NEW c \in Channels, Free(c), UNCHANGED <<pass, rows, names>>,
         cookie' \in {cookie, req[c].tok}, saved' \in {saved, req[c].tok},
         place' \in [Tabs -> {"closed", "html", "ready", "gate", "missing", "offline", "loading", "joining"}],
         \A t \in Tabs : t # c => place'[t] = place[t],
         c \in Tabs => place'[c] \notin {"loading", "joining"}
  PROVE  IInv'
<1>1. Idle \in Requests /\ Idle.at = "idle" /\ Idle.kind = "nav" /\ Idle.cookie = None /\ Idle.tok = None /\ Idle.out = "none"
  BY DEF Idle, Requests, Loads
<1>2. req[c] \in Requests /\ req[c].tok \in rows \cup {None} /\ rows \subseteq Tokens
  BY DEF IInv, TypeOK, RowBacked
<1>3. TypeOK'
  BY <1>1, <1>2 DEF IInv, TypeOK, Free
<1>4. \A d \in Channels : req'[d] = IF d = c THEN Idle ELSE req[d]
  BY DEF IInv, TypeOK, Free
<1>5. RowBacked'
  BY <1>1, <1>2, <1>4 DEF IInv, RowBacked
<1>6. AnswersTrue'
  BY <1>1, <1>4 DEF IInv, AnswersTrue
<1>7. Lines'
  BY <1>1, <1>4 DEF IInv, Lines, Channels
<1> QED BY <1>3, <1>5, <1>6, <1>7 DEF IInv

(* Every step of the browser, the server and the network keeps IInv.       *)
LEMMA NextIInv == IInv /\ [Next]_vars => IInv'
<1> SUFFICES ASSUME IInv, [Next]_vars PROVE IInv'
  OBVIOUS
<1> USE DEF browserVars, serverVars
<1>0. /\ Tabs \subseteq Channels /\ Others \subseteq Channels
      /\ \A c \in Others : c \notin Tabs
      /\ pass \in BOOLEAN /\ cookie \in Tokens \cup {None} /\ saved \in Tokens \cup {None}
      /\ saved # None => saved \in rows
      /\ \A c \in Channels : req[c] \in Requests
      /\ rows \subseteq Tokens /\ names \in [Tokens -> Names \cup {None}]
  BY DEF Channels, IInv, TypeOK, RowBacked
<1>1. ASSUME NEW t \in Tabs, NEW k \in {"nav", "scan"}, Open(t, k) PROVE IInv'
  <2>1. k \in Loads
    BY DEF Loads
  <2> QED BY <1>0, <1>1, <2>1, SendIInv DEF Open
<1>2. ASSUME NEW t \in Tabs, NEW b \in {"right", "wrong"}, TypePassword(t, b) PROVE IInv'
  <2>1. "access" \in Loads
    BY DEF Loads
  <2>2. /\ req' = [req EXCEPT ![t] = Request("access", b, pass)]
        /\ place' = [place EXCEPT ![t] = "loading"]
        /\ UNCHANGED <<cookie, saved, rows, names>> /\ pass' \in BOOLEAN
    BY <1>0, <1>2 DEF TypePassword
  <2>3. /\ t \in Channels /\ t \notin Others /\ "access" # "adopt" /\ "access" # "name"
        /\ "access" \in Loads \cup Joins \cup Data
        /\ b \in Tokens \cup Names \cup {None, "right", "wrong"}
    BY <1>0, <2>1
  <2> QED BY <1>0, <2>1, <2>2, <2>3, SendIInv
<1>3. ASSUME NEW t \in Tabs, Join(t) PROVE IInv'
  <2>1. "adopt" \in Joins /\ "get" \in Joins
    BY DEF Joins
  <2>2. /\ UNCHANGED <<cookie, saved, rows, names, pass>>
        /\ place' = [place EXCEPT ![t] = "joining"]
    BY <1>3 DEF Join
  <2>3. CASE saved # None
    <3>1. req' = [req EXCEPT ![t] = Request("adopt", saved, pass)]
      BY <1>3, <2>3 DEF Join
    <3>2. saved \in rows /\ saved \in Tokens
      BY <1>0, <2>3
    <3>3. /\ t \in Channels /\ t \notin Others /\ pass' \in BOOLEAN /\ "adopt" # "name"
          /\ "adopt" \in Loads \cup Joins \cup Data
          /\ saved \in Tokens \cup Names \cup {None, "right", "wrong"}
      BY <1>0, <2>1, <2>2, <3>2
    <3> QED BY <1>0, <2>1, <2>2, <3>1, <3>2, <3>3, SendIInv
  <2>4. CASE saved = None
    <3>1. req' = [req EXCEPT ![t] = Request("get", None, pass)]
      BY <1>3, <2>4 DEF Join
    <3>2. /\ t \in Channels /\ t \notin Others /\ pass' \in BOOLEAN
          /\ "get" # "name" /\ "get" # "adopt"
          /\ "get" \in Loads \cup Joins \cup Data
          /\ None \in Tokens \cup Names \cup {None, "right", "wrong"}
      BY <1>0, <2>1, <2>2
    <3> QED BY <1>0, <2>1, <2>2, <3>1, <3>2, SendIInv
  <2> QED BY <2>3, <2>4
<1>4. ASSUME NEW c \in Others, Fetch(c) PROVE IInv'
  <2>1. "api" \in Data
    BY DEF Data
  <2>2. /\ req' = [req EXCEPT ![c] = Request("api", None, pass)]
        /\ UNCHANGED <<cookie, saved, place, rows, names>> /\ pass' \in BOOLEAN
    BY <1>0, <1>4 DEF Fetch
  <2>3. /\ c \in Channels /\ c \notin Tabs /\ "api" # "adopt"
        /\ "api" \in Loads \cup Joins \cup Data
        /\ None \in Tokens \cup Names \cup {None, "right", "wrong"}
        /\ "api" = "name" => None \in Names
    BY <1>0, <2>1
  <2> QED BY <1>0, <2>1, <2>2, <2>3, SendIInv
<1>5. ASSUME NEW c \in Others, NEW n \in Names, ChangeName(c, n) PROVE IInv'
  <2>1. "name" \in Data
    BY DEF Data
  <2>2. /\ req' = [req EXCEPT ![c] = Request("name", n, pass)]
        /\ UNCHANGED <<cookie, saved, place, rows, names>> /\ pass' \in BOOLEAN
    BY <1>0, <1>5 DEF ChangeName
  <2>3. /\ c \in Channels /\ c \notin Tabs /\ "name" # "adopt"
        /\ "name" \in Loads \cup Joins \cup Data
        /\ n \in Tokens \cup Names \cup {None, "right", "wrong"}
        /\ "name" = "name" => n \in Names
    BY <1>0, <2>1
  <2> QED BY <1>0, <2>1, <2>2, <2>3, SendIInv
<1>6. ASSUME NEW t \in Tabs, Follow(t) PROVE IInv'
  <2>1. req[t].kind \in Loads /\ req[t].at # "idle" /\ place[t] = "loading"
    BY <1>0, <1>6 DEF Follow, IInv, Lines, Opens, Loads
  <2>2. place' = [place EXCEPT ![t] = "loading"]
    BY <1>6, <2>1 DEF Follow, IInv, TypeOK
  <2>3. /\ req' = [req EXCEPT ![t] = Request("nav", None, TRUE)]
        /\ UNCHANGED <<cookie, saved, rows, names>> /\ pass' = TRUE
    BY <1>6 DEF Follow
  <2>4. "nav" \in Loads
    BY DEF Loads
  <2>5. /\ t \in Channels /\ t \notin Others /\ "nav" # "adopt" /\ "nav" # "name"
        /\ "nav" \in Loads \cup Joins \cup Data /\ pass' \in BOOLEAN /\ TRUE \in BOOLEAN
        /\ None \in Tokens \cup Names \cup {None, "right", "wrong"}
    BY <1>0, <2>3, <2>4
  <2> QED BY <1>0, <2>2, <2>3, <2>4, <2>5, SendIInv
<1>7. ASSUME NEW c \in Channels, Gate(c) \/ NoRoute(c) PROVE IInv'
  BY <1>0, <1>7, AnswerIInv DEF Gate, NoRoute
<1>8. ASSUME NEW c \in Channels, NEW tok \in Resolve(req[c]), NEW n \in Names \cup {None},
             NEW o \in {"ok", "error"}, req[c].at = "sent", Upsert(tok, n), Answer(c, o, tok),
             UNCHANGED browserVars
      PROVE  IInv'
  <2>1. /\ tok \in Tokens
        /\ req[c].kind = "adopt" => tok = req[c].body
        /\ req[c].kind # "adopt" /\ req[c].cookie # None => tok = req[c].cookie
    BY <1>8, ResolveFacts
  <2>2. rows' = rows \cup {tok} /\ names' \in [Tokens -> Names \cup {None}]
    BY <1>0, <1>8, <2>1 DEF Upsert
  <2> QED BY <1>0, <1>8, <2>1, <2>2, AnswerIInv
<1>9. ASSUME NEW c \in Channels, BindOk(c) PROVE IInv'
  <2>1. req[c].kind = "name" => req[c].body \in Names
    BY DEF IInv, Lines
  <2> QED BY <1>8, <1>9, <2>1 DEF BindOk
<1>10. ASSUME NEW c \in Channels, LookupFails(c) PROVE IInv'
  BY <1>8, <1>10 DEF LookupFails, Fail
<1>11. ASSUME NEW c \in Channels, UpsertFails(c) PROVE IInv'
  BY <1>0, <1>11, AnswerIInv DEF UpsertFails, Fail
<1>12. ASSUME NEW t \in Tabs, ShowPage(t) PROVE IInv'
  BY <1>0, <1>12, OverIInv DEF ShowPage, SetCookie, IInv, TypeOK, Requests
<1>13. ASSUME NEW t \in Tabs, Joined(t) PROVE IInv'
  <2>1. /\ cookie' \in {cookie, req[t].tok} /\ UNCHANGED <<pass, rows, names>> /\ Free(t)
        /\ place' = [place EXCEPT ![t] = "ready"]
    BY <1>13 DEF Joined, SetCookie
  <2>2. saved' \in {saved, req[t].tok}
    BY <1>13 DEF Joined
  <2> QED BY <1>0, <2>1, <2>2, OverIInv DEF IInv, TypeOK
<1>14. ASSUME NEW c \in Others, Fetched(c) PROVE IInv'
  BY <1>0, <1>14, OverIInv DEF Fetched, SetCookie, IInv, TypeOK
<1>15. ASSUME NEW c \in Channels, Lost(c) PROVE IInv'
  BY <1>0, <1>15, OverIInv DEF Lost, IInv, TypeOK
<1>16. ASSUME Drop \/ UNCHANGED vars PROVE IInv'
  <2>1. /\ UNCHANGED <<saved, place, req, rows, names>> /\ pass' \in BOOLEAN
        /\ cookie' \in {cookie, None}
    BY <1>0, <1>16 DEF Drop, vars
  <2>2. TypeOK'
    BY <2>1 DEF IInv, TypeOK
  <2>3. RowBacked' /\ AnswersTrue'
    BY <2>1 DEF IInv, RowBacked, AnswersTrue
  <2>4. Lines'
    BY <2>1 DEF IInv, Lines, Opens
  <2> QED BY <2>2, <2>3, <2>4 DEF IInv
<1> QED
  BY <1>1, <1>2, <1>3, <1>4, <1>5, <1>6, <1>7, <1>9, <1>10, <1>11, <1>12, <1>13, <1>14, <1>15, <1>16
  DEF Next, Handle, Hear

(* The invariant holds in every reachable state.                           *)
THEOREM GuestInductive == Spec => []IInv
BY InitIInv, NextIInv, PTL DEF Spec

(* RowBacked: no cookie, saved token or answer without its row.            *)
THEOREM TokensHaveRows == Spec => []RowBacked
<1>1. IInv => RowBacked
  BY DEF IInv
<1> QED BY <1>1, GuestInductive, PTL

(* NamesStay: only a name replaces a name.                                 *)
THEOREM NamesAreKept == Spec => NamesStay
<1>1. IInv /\ [Next]_vars => [\A t \in Tokens : names[t] # None => names'[t] # None]_vars
  <2> SUFFICES ASSUME IInv, Next, NEW t \in Tokens, names[t] # None PROVE names'[t] # None
    BY DEF vars, serverVars
  <2> USE DEF browserVars, serverVars
  <2>1. ASSUME NEW tok, NEW n \in Names \cup {None}, Upsert(tok, n) PROVE names'[t] # None
    BY <2>1 DEF Upsert, IInv, TypeOK
  <2>2. ASSUME NEW c \in Channels, BindOk(c) PROVE names'[t] # None
    <3>1. req[c].kind = "name" => req[c].body \in Names
      BY DEF IInv, Lines
    <3> QED BY <2>1, <2>2, <3>1 DEF BindOk
  <2>3. ASSUME NEW c \in Channels, LookupFails(c) PROVE names'[t] # None
    BY <2>1, <2>3 DEF LookupFails
  <2>4. CASE UNCHANGED names
    BY <2>4
  <2> QED
    BY <2>2, <2>3, <2>4
    DEF Next, Handle, Hear, Open, TypePassword, Join, Fetch, ChangeName, Gate, NoRoute, UpsertFails,
        Follow, ShowPage, Joined, Fetched, Lost, Drop
<1> QED BY <1>1, GuestInductive, PTL DEF Spec, NamesStay

(* SavedStays: the saved token changes only through a session request that *)
(* was sent without it.                                                    *)
THEOREM SavedIsKept == Spec => SavedStays
<1>1. IInv /\ [Next]_vars =>
        [saved # None /\ saved' # saved =>
           \E t \in Tabs : req[t].kind \in Joins /\ Unaware(t, saved)]_vars
  <2> SUFFICES ASSUME IInv, Next, saved # None, saved' # saved
               PROVE  \E t \in Tabs : req[t].kind \in Joins /\ Unaware(t, saved)
    BY DEF vars, browserVars
  <2> USE DEF browserVars, serverVars
  <2>1. PICK t \in Tabs : Joined(t)
    BY DEF Next, Handle, Hear, Open, TypePassword, Join, Fetch, ChangeName, Gate, NoRoute, BindOk,
           LookupFails, UpsertFails, Follow, ShowPage, Fetched, Lost, Drop
  <2>2. req[t].at = "answered" /\ req[t].kind \in Joins /\ req[t].out = "ok" /\ req[t].tok # saved
    BY <2>1 DEF Joined
  <2>3. req[t].tok # None /\ t \in Channels
    BY <2>2 DEF IInv, AnswersTrue, Channels
  <2>4. Unaware(t, saved)
    BY <2>2, <2>3 DEF IInv, AnswersTrue, Unaware
  <2> QED BY <2>2, <2>4
<1> QED BY <1>1, GuestInductive, PTL DEF Spec, SavedStays

(* CookieStays: a cookie that agrees with the saved token is set apart     *)
(* from it only by the answer to a request sent without that token.        *)
THEOREM CookieIsKept == Spec => CookieStays
<1>1. IInv /\ [Next]_vars =>
        [cookie # None /\ cookie = saved /\ cookie' \notin {saved, None} =>
           \E c \in Channels : Unaware(c, saved)]_vars
  <2> SUFFICES ASSUME IInv, Next, cookie # None, cookie = saved, cookie' \notin {saved, None}
               PROVE  \E c \in Channels : Unaware(c, saved)
    BY DEF vars, browserVars
  <2> USE DEF browserVars, serverVars
  <2>1. PICK c \in Channels : req[c].at = "answered" /\ SetCookie(req[c])
    BY DEF Next, Handle, Hear, Open, TypePassword, Join, Fetch, ChangeName, Gate, NoRoute, BindOk,
           LookupFails, UpsertFails, Follow, ShowPage, Joined, Fetched, Lost, Drop, Channels
  <2>2. req[c].tok # None /\ req[c].tok # saved
    BY <2>1 DEF SetCookie
  <2>3. Unaware(c, saved)
    BY <2>1, <2>2 DEF IInv, AnswersTrue, Unaware
  <2> QED BY <2>3
<1> QED BY <1>1, GuestInductive, PTL DEF Spec, CookieStays
==============================================================================
