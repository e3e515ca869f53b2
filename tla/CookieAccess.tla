------------------------------ MODULE CookieAccess ------------------------------
(***************************************************************************)
(* Reading an upstream with a session Cookie that was registered for an    *)
(* account (collection/cookie_access.go, collection/cookie_identity.go,    *)
(* store/cookie_credentials.go, the triggers of migration 033).            *)
(*                                                                         *)
(* A reader asks the site first whose Cookie it is, marks the stored       *)
(* Cookie ready, and then reads Keys and prices with it.  A Cookie that is *)
(* refused is marked expired, one that needs a person needs_action.        *)
(* Meanwhile the Cookie is replaced, switched off or cleared, the account  *)
(* gets another user identifier, is disabled, or moves to another site.    *)
(* Every such change gives the stored Cookie a new revision (its           *)
(* updated_at) or deletes it.                                              *)
(*                                                                         *)
(* The channel lock (ChannelSessions) lets one reader at a time read an    *)
(* account, so one account with one reader is modelled.                    *)
(***************************************************************************)
EXTENDS Integers

CONSTANTS
  Cookies,
  Users,     \* user identifiers at the upstream
  Headers,   \* NewAPIUserIDHeaderCandidates
  Sites,     \* base URLs
  Default,   \* the header tried first
  Owner,     \* upstream: the user a Cookie belongs to
  Reads,     \* cookieUserID: the user a Cookie names, None if unreadable
  MaxRev,    \* bound: revisions
  None

ASSUME CookieAssumption ==
  /\ Owner \in [Cookies -> Users] /\ Reads \in [Cookies -> Users \cup {None}]
  /\ Default \in Headers /\ MaxRev \in Nat
  /\ None \notin Cookies \cup Users \cup Headers \cup Sites

VARIABLES
  row,       \* collector_cookie_credentials, None without one
  rev,       \* the revision given out last
  uid,       \* upstream_accounts.external_user_id
  active,    \* the account and its channel are enabled
  site,      \* channels.base_url
  live,      \* upstream: Cookies that are logged in
  wants,     \* upstream: the header the site reads the user from
  pc,
  ses,       \* the reader's session
  path,      \* what it asks for, "self" or "data"
  cands,     \* headers it has not tried
  header,    \* the header it tries
  pinned,    \* send's revision, 0 for any
  cred,      \* the credential it loaded
  mark,      \* the state it is about to write
  proven,    \* history: Cookies the site confirmed, with the user
  refused    \* history: headers refused under the current revision

config == <<row, rev, uid, active, site>>
upstream == <<live, wants>>
history == <<proven, refused>>
vars == <<config, upstream, pc, ses, path, cands, header, pinned, cred, mark, history>>

States == {"unverified", "ready", "expired", "needs_action"}
Row == [cookie : Cookies, enabled : BOOLEAN, state : States, rev : 1..MaxRev]
Session == [explicit : BOOLEAN, uid : Users \cup {None}, site : Sites,
            rev : 0..MaxRev, user : Users \cup {None}, header : Headers \cup {None}]
Cred == [cookie : Cookies, uid : Users \cup {None}, site : Sites, state : States, rev : 1..MaxRev]

ASSUME NoneAssumption ==
  None \notin Row /\ None \notin Session /\ None \notin Cred
    /\ None \notin {"self", "data", "expired", "needs_action"}

TypeOK ==
  /\ row \in Row \cup {None} /\ rev \in 0..MaxRev
  /\ uid \in Users \cup {None} /\ active \in BOOLEAN /\ site \in Sites
  /\ live \in SUBSET Cookies /\ wants \in Headers
  /\ pc \in {"idle", "open", "load", "sent", "confirm", "mark"}
  /\ ses \in Session \cup {None} /\ path \in {"self", "data", None}
  /\ cands \in SUBSET Headers /\ header \in Headers \cup {None}
  /\ pinned \in 0..MaxRev /\ cred \in Cred \cup {None}
  /\ mark \in {"expired", "needs_action", None}
  /\ proven \in SUBSET (Cookies \X Users) /\ refused \in SUBSET Headers

Init ==
  /\ row = None /\ rev = 0 /\ uid \in Users \cup {None} /\ active = TRUE /\ site \in Sites
  /\ live = Cookies /\ wants \in Headers
  /\ pc = "idle" /\ ses = None /\ path = None /\ cands = {} /\ header = None
  /\ pinned = 0 /\ cred = None /\ mark = None
  /\ proven = {} /\ refused = {}

reader == <<pc, ses, path, cands, header, pinned, cred, mark>>

\* clock_timestamp(): no two revisions are the same.
NewRev == rev < MaxRev /\ rev' = rev + 1 /\ refused' = {}
-----------------------------------------------------------------------------
\* Save, from the console or the import of a file.
Save(c, on) ==
  /\ ~(row # None /\ row.cookie = c /\ row.enabled = on)
  /\ NewRev
  /\ row' = [cookie |-> c, enabled |-> on, state |-> "unverified", rev |-> rev']
  /\ UNCHANGED <<uid, active, site, upstream, reader, proven>>

Clear ==
  /\ row # None /\ row' = None /\ refused' = {}
  /\ UNCHANGED <<rev, uid, active, site, upstream, reader, proven>>

\* The triggers: another user or status makes the Cookie unverified under a
\* new revision, another site deletes it.
Invalidated ==
  IF row = None THEN UNCHANGED <<row, rev, refused>>
  ELSE NewRev /\ row' = [row EXCEPT !.state = "unverified", !.rev = rev']

SetUser(u) ==
  /\ uid # u /\ uid' = u /\ Invalidated
  /\ UNCHANGED <<active, site, upstream, reader, proven>>

SetActive ==
  /\ active' = ~active /\ Invalidated
  /\ UNCHANGED <<uid, site, upstream, reader, proven>>

SetSite(b) ==
  /\ site # b /\ site' = b /\ row' = None /\ refused' = {}
  /\ UNCHANGED <<rev, uid, active, upstream, reader, proven>>

\* Upstream: a Cookie is logged out.
LogOut(c) ==
  /\ c \in live /\ live' = live \ {c}
  /\ UNCHANGED <<config, wants, reader, history>>
-----------------------------------------------------------------------------
\* Load: the enabled Cookie of an enabled account.
Loadable == row # None /\ row.enabled /\ active
Loaded == [cookie |-> row.cookie, uid |-> uid, site |-> site, state |-> row.state, rev |-> row.rev]

\* Validate, or the session of a collection, an import of Keys.
Open(explicit) ==
  /\ pc = "idle" /\ Loadable
  /\ ses' = [explicit |-> explicit, uid |-> uid, site |-> site,
             rev |-> 0, user |-> None, header |-> None]
  /\ pc' = "open"
  /\ UNCHANGED <<config, upstream, path, cands, header, pinned, cred, mark, history>>

Idle ==
  /\ pc' = "idle" /\ ses' = None /\ path' = None /\ cands' = {} /\ header' = None
  /\ pinned' = 0 /\ cred' = None /\ mark' = None

\* The session ends, by any error, or after Validate's one request.
Close ==
  /\ pc # "idle" /\ Idle
  /\ UNCHANGED <<config, upstream, history>>

\* send: all headers are candidates until the session knows its revision.  Do
\* asks "self" before anything else of a session that does not know it.
Request(what) ==
  /\ pc = "open"
  /\ what = "data" => ses.rev # 0 /\ ~ses.explicit
  /\ path' = what /\ pinned' = 0
  /\ header' = IF ses.header = None THEN Default ELSE ses.header
  /\ cands' = (IF what = "self" /\ ses.rev = 0 THEN Headers \ {header'} ELSE {})
  /\ pc' = "load"
  /\ UNCHANGED <<config, upstream, ses, cred, mark, history>>

\* Mutant: the session takes whatever Cookie is stored now.
AnyRevision(c) ==
  ses.site = c.site /\ (IF ses.uid = None THEN ses.user ELSE ses.uid) = c.uid

\* checkCookieSession: the session is for this site, user and revision.
SameSession(c) ==
  /\ ses.site = c.site
  /\ (IF ses.uid = None THEN ses.user ELSE ses.uid) = c.uid
  /\ ses.rev # 0 => ses.rev = c.rev

Usable(c) == ses.explicit \/ c.state \notin {"expired", "needs_action"}

\* cookieHeaders: the user the request names.
NamedUser(c) == IF c.uid = None THEN Reads[c.cookie] ELSE c.uid
NamesUser(c) == NamedUser(c) # None /\ Reads[c.cookie] \in {None, NamedUser(c)}

\* sendOnce after the wait for a slot: the Cookie is loaded and sent.
Send ==
  /\ pc = "load" /\ Loadable
  /\ pinned \in {0, row.rev} /\ SameSession(Loaded) /\ Usable(Loaded) /\ NamesUser(Loaded)
  /\ cred' = Loaded /\ pc' = "sent"
  /\ UNCHANGED <<config, upstream, ses, path, cands, header, pinned, mark, history>>

\* The Cookie names another user than the account, or none; or it is marked so
\* already.
NeedsAction ==
  /\ pc = "load" /\ Loadable
  /\ pinned \in {0, row.rev} /\ SameSession(Loaded)
  /\ \/ ~ses.explicit /\ row.state = "needs_action"
     \/ Usable(Loaded) /\ ~NamesUser(Loaded)
  /\ cred' = Loaded /\ mark' = "needs_action" /\ pc' = "mark"
  /\ UNCHANGED <<config, upstream, ses, path, cands, header, pinned, history>>

\* The site's answer: it knows the Cookie, the header and the user, or refuses.
Accepts == cred.cookie \in live /\ header = wants /\ NamedUser(cred) = Owner[cred.cookie]

Confirmed ==
  /\ pc = "sent" /\ path = "self" /\ Accepts
  /\ proven' = proven \cup {<<cred.cookie, Owner[cred.cookie]>>}
  /\ pc' = "confirm"
  /\ UNCHANGED <<config, upstream, ses, path, cands, header, pinned, cred, mark, refused>>

DataRead ==
  /\ pc = "sent" /\ path = "data" /\ Accepts
  /\ pc' = "open" /\ path' = None /\ cred' = None /\ header' = None
  /\ UNCHANGED <<config, upstream, ses, cands, pinned, mark, history>>

Refusal == IF row # None /\ row.rev = cred.rev THEN refused \cup {header} ELSE refused

\* The next candidate, with the revision pinned.
TryNext(h) ==
  /\ pc = "sent" /\ ~Accepts /\ h \in cands
  /\ header' = h /\ cands' = cands \ {h} /\ pinned' = cred.rev
  /\ refused' = Refusal
  /\ pc' = "load" /\ cred' = None
  /\ UNCHANGED <<config, upstream, ses, path, mark, proven>>

\* Mutant: one refused header is enough.
EveryRefusal == TRUE

LastRefusal == cands = {}

\* reject: every candidate was refused, or a person has to look at the answer
\* (a challenge, another user than the one named).
Rejected ==
  /\ pc = "sent" /\ ~Accepts /\ LastRefusal
  /\ mark' = "expired" /\ pc' = "mark"
  /\ refused' = Refusal
  /\ UNCHANGED <<config, upstream, ses, path, cands, header, pinned, cred, proven>>

Challenged ==
  /\ pc = "sent" /\ mark' = "needs_action" /\ pc' = "mark"
  /\ UNCHANGED <<config, upstream, ses, path, cands, header, pinned, cred, history>>
-----------------------------------------------------------------------------
\* Mutant: an update by account alone.
CurrentOfAccount == row # None /\ row.enabled /\ active /\ site = cred.site

\* MarkState: only the revision that was sent, still enabled at the same site.
Current == row # None /\ row.rev = cred.rev /\ row.enabled /\ active /\ site = cred.site

Mark ==
  /\ pc = "mark" /\ Current
  /\ row' = [row EXCEPT !.state = mark]
  /\ Idle
  /\ UNCHANGED <<rev, uid, active, site, upstream, history>>

\* confirmIdentity: the known user is confirmed, or the empty one filled in;
\* the trigger's new revision is the one the session goes on with.
Confirm ==
  /\ pc = "confirm" /\ cred.uid # None /\ Current
  /\ row' = [row EXCEPT !.state = "ready"]
  /\ ses' = [ses EXCEPT !.rev = cred.rev, !.user = cred.uid, !.header = header]
  /\ pc' = "open" /\ path' = None /\ cands' = {} /\ header' = None /\ pinned' = 0 /\ cred' = None
  /\ UNCHANGED <<rev, uid, active, site, upstream, mark, history>>

BindIdentity ==
  /\ pc = "confirm" /\ cred.uid = None /\ uid = None /\ Current
  /\ NewRev
  /\ uid' = NamedUser(cred)
  /\ row' = [row EXCEPT !.state = "ready", !.rev = rev']
  /\ ses' = [ses EXCEPT !.rev = rev', !.user = uid', !.header = header]
  /\ pc' = "open" /\ path' = None /\ cands' = {} /\ header' = None /\ pinned' = 0 /\ cred' = None
  /\ UNCHANGED <<active, site, upstream, mark, proven>>

Next ==
  \/ \E c \in Cookies, on \in BOOLEAN : Save(c, on)
  \/ Clear \/ \E u \in Users \cup {None} : SetUser(u)
  \/ SetActive \/ \E b \in Sites : SetSite(b)
  \/ \E c \in Cookies : LogOut(c)
  \/ \E explicit \in BOOLEAN : Open(explicit)
  \/ \E what \in {"self", "data"} : Request(what)
  \/ Send \/ NeedsAction \/ Confirmed \/ DataRead
  \/ \E h \in Headers : TryNext(h)
  \/ Rejected \/ Challenged \/ Mark \/ Confirm \/ BindIdentity \/ Close

Spec == Init /\ [][Next]_vars
-----------------------------------------------------------------------------
\* A stored Cookie is called ready only if the site confirmed it, for the user
\* the account has now.
ReadyIsProven == (row # None /\ row.state = "ready") => <<row.cookie, uid>> \in proven

\* A stored Cookie is called expired only if, since it was saved or last
\* changed, the site refused it: under every header, or under the one header
\* it had accepted before.
ExpiredIsRefused ==
  (row # None /\ row.state = "expired")
    => \/ refused = Headers
       \/ <<row.cookie, uid>> \in proven /\ refused # {}

\* No Keys or prices are read with a Cookie that the site has not confirmed to
\* be the account's, whatever was saved between the question and the read.
DataIsOwn == (pc = "sent" /\ path = "data") => <<cred.cookie, cred.uid>> \in proven

\* A session that has bound the account to a user holds a Cookie of that user:
\* an account is never bound to the user of a Cookie it no longer has.
BindsOwner ==
  [][ (pc = "confirm" /\ uid' # uid /\ pc' = "open")
        => uid = None /\ row # None /\ Owner[row.cookie] = uid' ]_vars
=============================================================================
