--------------------------- MODULE CookieAccessProofs ---------------------------
(***************************************************************************)
(* Proofs about CookieAccess, for all Cookies, users, headers, sites and   *)
(* revisions.                                                              *)
(*                                                                         *)
(* The argument is about revisions: whoever holds one that is still stored *)
(* holds the Cookie and the user that are stored, because every change of  *)
(* either takes a revision nobody has seen, or removes the row.            *)
(***************************************************************************)
EXTENDS CookieAccess, TLAPS

\* What the reader has at each place.
Placed ==
  /\ pc # "idle" => ses # None
  /\ pc = "idle" => path # "data"
  /\ pc \in {"sent", "confirm", "mark"} => cred # None
  /\ pc = "mark" => mark # None
  /\ path = "data" => ses # None /\ ses.rev # 0
  /\ pc \in {"load", "sent", "confirm"} => header # None

\* No revision is ahead of the last one given out.
Given ==
  /\ row # None => row.rev <= rev
  /\ cred # None => cred.rev <= rev
  /\ ses # None => ses.rev <= rev

\* The reader's credential, as long as its revision is the stored one, is
\* what is stored.
HeldIsStored ==
  (cred # None /\ row # None /\ row.rev = cred.rev) => row.cookie = cred.cookie /\ uid = cred.uid

\* A session that knows its revision learned it from the site.
KnownIsProven ==
  (ses # None /\ ses.rev # 0 /\ row # None /\ row.rev = ses.rev) => <<row.cookie, uid>> \in proven

\* Every header is among those the reader tries, has still to try or has seen
\* refused, as long as n is the stored revision: a new one starts with none.
Covered(n) ==
  (row # None /\ row.rev = n) => Headers \subseteq cands \cup {header} \cup refused

\* A session that does not know its revision tries them all.
TriesAll ==
  /\ pinned <= rev
  /\ pc = "load" /\ ses.rev = 0 /\ pinned = 0 => cands = Headers \ {header}
  /\ pc = "load" /\ ses.rev = 0 /\ pinned # 0 => Covered(pinned)
  /\ pc = "sent" /\ ses.rev = 0 => Covered(cred.rev)
  /\ pc = "sent" /\ ses.rev # 0 => cred.rev = ses.rev

RefusedEnough ==
  \/ refused = Headers
  \/ <<row.cookie, uid>> \in proven /\ refused # {}

\* What is about to be marked expired was refused, if it is still stored.
MarkIsRefused ==
  (pc = "mark" /\ mark = "expired" /\ row # None /\ row.rev = cred.rev) => RefusedEnough

RInv == TriesAll /\ MarkIsRefused /\ ExpiredIsRefused

\* Between the site's answer and the mark.
ConfirmedIsProven ==
  pc = "confirm" => /\ NamedUser(cred) = Owner[cred.cookie]
                    /\ <<cred.cookie, Owner[cred.cookie]>> \in proven

IInv ==
  /\ TypeOK /\ Placed /\ Given
  /\ HeldIsStored /\ KnownIsProven /\ ConfirmedIsProven /\ ReadyIsProven /\ DataIsOwn

-----------------------------------------------------------------------------
LEMMA Constants ==
  /\ MaxRev \in Nat /\ Default \in Headers
  /\ None \notin Cookies /\ None \notin Users /\ None \notin Headers /\ None \notin Sites
  /\ \A c \in Cookies : Owner[c] \in Users /\ Reads[c] \in Users \cup {None}
BY CookieAssumption

LEMMA Nones ==
  /\ None \notin Row /\ None \notin Session /\ None \notin Cred
  /\ None # "self" /\ None # "data" /\ None # "expired" /\ None # "needs_action"
BY NoneAssumption

LEMMA RowFields ==
  ASSUME NEW r \in Row
  PROVE  /\ r.cookie \in Cookies /\ r.enabled \in BOOLEAN /\ r.state \in States
         /\ r.rev \in 1..MaxRev
BY DEF Row

LEMMA CredFields ==
  ASSUME NEW c \in Cred
  PROVE  /\ c.cookie \in Cookies /\ c.uid \in Users \cup {None} /\ c.site \in Sites
         /\ c.state \in States /\ c.rev \in 1..MaxRev
BY DEF Cred

LEMMA SessionFields ==
  ASSUME NEW s \in Session
  PROVE  /\ s.explicit \in BOOLEAN /\ s.uid \in Users \cup {None} /\ s.site \in Sites
         /\ s.rev \in 0..MaxRev /\ s.user \in Users \cup {None} /\ s.header \in Headers \cup {None}
BY DEF Session

\* A fresh session, and one that has learned its revision.
LEMMA FreshSession ==
  ASSUME TypeOK, NEW explicit \in BOOLEAN,
         NEW s, s = [explicit |-> explicit, uid |-> uid, site |-> site,
                     rev |-> 0, user |-> None, header |-> None]
  PROVE  s \in Session /\ s.rev = 0
<1>1. uid \in Users \cup {None} /\ site \in Sites /\ 0 \in 0..MaxRev
  BY Constants DEF TypeOK
<1>2. QED
  BY <1>1 DEF Session

LEMMA LearnedSession ==
  ASSUME NEW n \in 0..MaxRev, NEW u \in Users \cup {None}, NEW h \in Headers \cup {None},
         ses \in Session, ses' = [ses EXCEPT !.rev = n, !.user = u, !.header = h]
  PROVE  ses' \in Session /\ ses'.rev = n
BY DEF Session

-----------------------------------------------------------------------------
(***************************************************************************)
(* Steps of people and of the upstream                                     *)
(***************************************************************************)
\* A change of the account that removes the row, leaves it alone, or stores
\* one that is not ready under a revision that is new.
Outside ==
  /\ UNCHANGED <<reader, proven>>
  /\ rev' \in 0..MaxRev /\ rev <= rev'
  /\ uid' \in Users \cup {None} /\ active' \in BOOLEAN /\ site' \in Sites
  /\ live' \in SUBSET Cookies /\ wants' \in Headers /\ refused' \in SUBSET Headers
  /\ \/ row' = None
     \/ row' \in Row /\ rev < rev' /\ row'.rev = rev' /\ row'.state = "unverified"
     \/ row' = row /\ rev' = rev /\ uid' = uid /\ refused' = refused

LEMMA NewRevTypes ==
  ASSUME TypeOK, NewRev
  PROVE  rev' \in 1..MaxRev /\ rev < rev' /\ refused' \in SUBSET Headers
BY Constants DEF TypeOK, NewRev

LEMMA InvalidatedOutside ==
  ASSUME TypeOK, Invalidated
  PROVE  /\ rev' \in 0..MaxRev /\ rev <= rev' /\ refused' \in SUBSET Headers
         /\ \/ row' = None
            \/ row' \in Row /\ rev < rev' /\ row'.rev = rev' /\ row'.state = "unverified"
<1>1. CASE row = None
  BY <1>1 DEF Invalidated, TypeOK
<1>2. CASE row # None
  <2>1. NewRev /\ row' = [row EXCEPT !.state = "unverified", !.rev = rev'] /\ row \in Row
    BY <1>2 DEF Invalidated, TypeOK
  <2>2. rev' \in 1..MaxRev /\ rev < rev' /\ refused' \in SUBSET Headers /\ rev \in 0..MaxRev
    BY <2>1, NewRevTypes DEF TypeOK
  <2>3. row' \in Row /\ row'.rev = rev' /\ row'.state = "unverified"
    BY <2>1, <2>2 DEF Row, States
  <2>4. QED
    BY <2>2, <2>3, Constants
<1>3. QED
  BY <1>1, <1>2

LEMMA OutsideSteps ==
  ASSUME TypeOK,
         \/ \E c \in Cookies, on \in BOOLEAN : Save(c, on)
         \/ Clear \/ (\E u \in Users \cup {None} : SetUser(u))
         \/ SetActive \/ (\E b \in Sites : SetSite(b)) \/ (\E c \in Cookies : LogOut(c))
  PROVE  Outside
<1>t. /\ rev \in 0..MaxRev /\ uid \in Users \cup {None} /\ active \in BOOLEAN /\ site \in Sites
      /\ live \in SUBSET Cookies /\ wants \in Headers /\ refused \in SUBSET Headers
      /\ rev <= rev /\ MaxRev \in Nat
  BY Constants DEF TypeOK
<1>1. ASSUME NEW c \in Cookies, NEW on \in BOOLEAN, Save(c, on)
      PROVE  Outside
  <2>1. rev' \in 1..MaxRev /\ rev < rev' /\ refused' \in SUBSET Headers
    BY <1>1, NewRevTypes DEF Save
  <2>2. row' \in Row /\ row'.rev = rev' /\ row'.state = "unverified"
    BY <1>1, <2>1 DEF Save, Row, States
  <2>3. QED
    BY <1>1, <1>t, <2>1, <2>2 DEF Save, Outside, upstream
<1>2. CASE Clear
  BY <1>2, <1>t DEF Clear, Outside, upstream
<1>3. ASSUME NEW u \in Users \cup {None}, SetUser(u)
      PROVE  Outside
  BY <1>3, <1>t, InvalidatedOutside DEF SetUser, Outside, upstream
<1>4. CASE SetActive
  <2>1. active' \in BOOLEAN
    BY <1>4 DEF SetActive
  <2>2. QED
    BY <1>4, <1>t, <2>1, InvalidatedOutside DEF SetActive, Outside, upstream
<1>5. ASSUME NEW b \in Sites, SetSite(b)
      PROVE  Outside
  BY <1>5, <1>t DEF SetSite, Outside, upstream
<1>6. ASSUME NEW c \in Cookies, LogOut(c)
      PROVE  Outside
  BY <1>6, <1>t DEF LogOut, Outside, config, history
<1>7. QED
  BY <1>1, <1>2, <1>3, <1>4, <1>5, <1>6

LEMMA OutsideKeeps ==
  ASSUME IInv, Outside
  PROVE  IInv'
<1>t. /\ TypeOK /\ rev \in 0..MaxRev /\ rev' \in 0..MaxRev /\ rev <= rev' /\ MaxRev \in Nat
      /\ cred \in Cred \cup {None} /\ ses \in Session \cup {None} /\ row \in Row \cup {None}
  BY Constants DEF IInv, TypeOK, Outside
<1>u. /\ pc' = pc /\ ses' = ses /\ path' = path /\ cands' = cands /\ header' = header
      /\ pinned' = pinned /\ cred' = cred /\ mark' = mark /\ proven' = proven
  BY DEF Outside, reader
<1>b. /\ cred # None => cred.rev \in 1..MaxRev /\ cred.rev <= rev
      /\ ses # None => ses.rev \in 0..MaxRev /\ ses.rev <= rev
      /\ row # None => row.rev \in 1..MaxRev /\ row.rev <= rev
  BY <1>t, CredFields, SessionFields, RowFields DEF IInv, Given
<1>1. TypeOK'
  BY <1>t, <1>u DEF TypeOK, Outside
<1>2. Placed'
  BY <1>u DEF IInv, Placed
<1>3. Given'
  BY <1>t, <1>u, <1>b DEF Given, Outside
<1>4. HeldIsStored' /\ KnownIsProven'
  <2>1. CASE row' = None
    BY <2>1 DEF HeldIsStored, KnownIsProven
  <2>2. CASE row'.rev = rev' /\ rev < rev'
    BY <2>2, <1>t, <1>u, <1>b DEF HeldIsStored, KnownIsProven
  <2>3. CASE row' = row /\ uid' = uid
    BY <2>3, <1>u DEF HeldIsStored, KnownIsProven, IInv
  <2>4. QED
    BY <2>1, <2>2, <2>3 DEF Outside
<1>5. ConfirmedIsProven' /\ DataIsOwn'
  BY <1>u DEF ConfirmedIsProven, DataIsOwn, NamedUser, IInv
<1>6. ReadyIsProven'
  BY <1>u DEF ReadyIsProven, IInv, Outside
<1>7. QED
  BY <1>1, <1>2, <1>3, <1>4, <1>5, <1>6 DEF IInv

-----------------------------------------------------------------------------
(***************************************************************************)
(* Steps of the reader that write nothing                                  *)
(***************************************************************************)
Reads1 ==
  \/ \E explicit \in BOOLEAN : Open(explicit)
  \/ \E what \in {"self", "data"} : Request(what)
  \/ Send \/ NeedsAction \/ Confirmed \/ DataRead
  \/ \E h \in Headers : TryNext(h)
  \/ Rejected \/ Challenged \/ Close

\* The parts of IInv that speak of the row and what is proven survive a step
\* that leaves the account alone and proves more.
LEMMA QuietKeeps ==
  ASSUME IInv, UNCHANGED config, proven \subseteq proven'
  PROVE  /\ (ses' = ses \/ ses' = None \/ ses'.rev = 0) => KnownIsProven'
         /\ (cred' = cred \/ cred' = None \/ (row # None /\ cred' = Loaded)) => HeldIsStored'
         /\ ReadyIsProven'
<1>u. row' = row /\ rev' = rev /\ uid' = uid
  BY DEF config
<1>1. (ses' = ses \/ ses' = None \/ ses'.rev = 0) => KnownIsProven'
  BY <1>u DEF IInv, KnownIsProven
<1>2. (cred' = cred \/ cred' = None \/ (row # None /\ cred' = Loaded)) => HeldIsStored'
  <2>1. Loaded.cookie = row.cookie /\ Loaded.uid = uid
    BY DEF Loaded
  <2>2. QED
    BY <1>u, <2>1 DEF IInv, HeldIsStored
<1>3. ReadyIsProven'
  BY <1>u DEF IInv, ReadyIsProven
<1>4. QED
  BY <1>1, <1>2, <1>3

LEMMA LoadedTypes ==
  ASSUME TypeOK, row # None
  PROVE  Loaded \in Cred /\ Loaded.rev = row.rev /\ Loaded.cookie = row.cookie /\ Loaded.uid = uid
<1>1. row \in Row /\ uid \in Users \cup {None} /\ site \in Sites
  BY DEF TypeOK
<1>2. /\ row.cookie \in Cookies /\ row.state \in States /\ row.rev \in 1..MaxRev
  BY <1>1, RowFields
<1>3. QED
  BY <1>1, <1>2 DEF Loaded, Cred

\* The stored revision has been given out, so it is one a session may know.
LEMMA SendIsProven ==
  ASSUME IInv, Send, path = "data"
  PROVE  <<Loaded.cookie, Loaded.uid>> \in proven
<1>1. row # None /\ pc = "load" /\ SameSession(Loaded)
  BY DEF Send, Loadable
<1>2. ses # None /\ ses.rev # 0
  BY DEF IInv, Placed
<1>3. ses.rev = Loaded.rev
  BY <1>1, <1>2 DEF SameSession
<1>4. Loaded.rev = row.rev /\ Loaded.cookie = row.cookie /\ Loaded.uid = uid
  BY <1>1, LoadedTypes DEF IInv
<1>5. QED
  BY <1>1, <1>2, <1>3, <1>4 DEF IInv, KnownIsProven

LEMMA ReaderTypes ==
  ASSUME TypeOK, Placed, Reads1
  PROVE  TypeOK'
<1>t. /\ row \in Row \cup {None} /\ rev \in 0..MaxRev
      /\ uid \in Users \cup {None} /\ site \in Sites /\ cred \in Cred \cup {None}
      /\ ses \in Session \cup {None} /\ header \in Headers \cup {None} /\ MaxRev \in Nat
      /\ Default \in Headers /\ proven \in SUBSET (Cookies \X Users) /\ refused \in SUBSET Headers
      /\ cands \in SUBSET Headers /\ pinned \in 0..MaxRev
  BY Constants DEF TypeOK
<1>1. ASSUME NEW explicit \in BOOLEAN, Open(explicit)
      PROVE  TypeOK'
  <2>1. ses' \in Session
    BY <1>1, <1>t DEF Open, Session
  <2>2. QED
    BY <1>1, <2>1 DEF Open, TypeOK, config, upstream, history
<1>2. ASSUME NEW what \in {"self", "data"}, Request(what)
      PROVE  TypeOK'
  <2>1. pc = "open" /\ ses \in Session
    BY <1>2, <1>t DEF Request, Placed
  <2>2. header' \in Headers
    BY <1>2, <1>t, <2>1, SessionFields DEF Request
  <2>3. cands' \in SUBSET Headers /\ pinned' \in 0..MaxRev
    BY <1>2, <1>t DEF Request
  <2>4. QED
    BY <1>2, <2>2, <2>3 DEF Request, TypeOK, config, upstream, history
<1>3. CASE Send \/ NeedsAction
  <2>1. cred' \in Cred
    BY <1>3, LoadedTypes DEF Send, NeedsAction, Loadable
  <2>2. CASE Send
    BY <2>1, <2>2 DEF Send, TypeOK, config, upstream, history
  <2>3. CASE NeedsAction
    BY <2>1, <2>3 DEF NeedsAction, TypeOK, config, upstream, history
  <2>4. QED
    BY <1>3, <2>2, <2>3
<1>4. CASE Confirmed
  <2>1. cred \in Cred
    BY <1>4, <1>t DEF Confirmed, Placed
  <2>2. cred.cookie \in Cookies /\ Owner[cred.cookie] \in Users
    BY <2>1, CredFields, Constants
  <2>3. proven' \in SUBSET (Cookies \X Users)
    BY <1>4, <1>t, <2>2 DEF Confirmed
  <2>4. QED
    BY <1>4, <2>3 DEF Confirmed, TypeOK, config, upstream
<1>5. CASE DataRead
  BY <1>5 DEF DataRead, TypeOK, config, upstream, history
<1>r. ASSUME pc = "sent"
      PROVE  Refusal \in SUBSET Headers /\ cred.rev \in 1..MaxRev
  <2>1. header \in Headers /\ cred \in Cred
    BY <1>r, <1>t DEF Placed
  <2>2. QED
    BY <1>t, <2>1, CredFields DEF Refusal
<1>6. ASSUME NEW h \in Headers, TryNext(h)
      PROVE  TypeOK'
  <2>1. pinned' \in 0..MaxRev /\ refused' \in SUBSET Headers
    BY <1>6, <1>r, <1>t DEF TryNext
  <2>2. cands' \in SUBSET Headers
    BY <1>6, <1>t DEF TryNext
  <2>3. QED
    BY <1>6, <2>1, <2>2 DEF TryNext, TypeOK, config, upstream
<1>7. CASE Rejected
  <2>1. refused' \in SUBSET Headers
    BY <1>7, <1>r DEF Rejected
  <2>2. QED
    BY <1>7, <2>1 DEF Rejected, TypeOK, config, upstream
<1>8. CASE Challenged
  BY <1>8 DEF Challenged, TypeOK, config, upstream, history
<1>9. CASE Close
  BY <1>9, <1>t DEF Close, Idle, TypeOK, config, upstream, history
<1>10. QED
  BY <1>1, <1>2, <1>3, <1>4, <1>5, <1>6, <1>7, <1>8, <1>9 DEF Reads1

LEMMA ReaderKeeps ==
  ASSUME IInv, Reads1
  PROVE  IInv'
<1>t. /\ TypeOK /\ Placed /\ cred \in Cred \cup {None} /\ ses \in Session \cup {None}
      /\ Default \in Headers /\ None \notin Headers
  BY Constants DEF IInv, TypeOK
<1>1. TypeOK'
  BY <1>t, ReaderTypes
<1>2. UNCHANGED config /\ proven \subseteq proven'
  BY DEF Reads1, Open, Request, Send, NeedsAction, Confirmed, DataRead, TryNext, Rejected,
         Challenged, Close, config, history
<1>s. ASSUME UNCHANGED ses, cred' = cred \/ cred' = None \/ (row # None /\ cred' = Loaded)
      PROVE  Given' /\ HeldIsStored' /\ KnownIsProven' /\ ReadyIsProven'
  <2>1. row' = row /\ rev' = rev
    BY <1>2 DEF config
  <2>2. row # None => Loaded.rev = row.rev
    BY <1>t, LoadedTypes
  <2>3. Given'
    BY <1>s, <2>1, <2>2 DEF IInv, Given
  <2>4. QED
    BY <1>s, <1>2, <2>3, QuietKeeps
<1>3. ASSUME NEW explicit \in BOOLEAN, Open(explicit)
      PROVE  IInv'
  <2>1. /\ pc = "idle" /\ pc' = "open" /\ ses' # None /\ ses'.rev = 0 /\ rev' = rev
        /\ UNCHANGED <<row, path, cred, mark, header>>
    <3>1. ses'.rev = 0 /\ ses' \in Session
      BY <1>3, <1>t, FreshSession DEF Open
    <3>2. QED
      BY <1>3, <3>1, Nones DEF Open, config
  <2>2. Placed' /\ ConfirmedIsProven' /\ DataIsOwn'
    BY <2>1 DEF IInv, Placed, ConfirmedIsProven, DataIsOwn
  <2>3. Given'
    <3>1. rev \in Nat
      BY <1>t, Constants DEF TypeOK
    <3>2. QED
      BY <2>1, <3>1 DEF IInv, Given
  <2>4. HeldIsStored' /\ KnownIsProven' /\ ReadyIsProven'
    BY <1>2, <2>1, QuietKeeps
  <2>5. QED
    BY <1>1, <2>2, <2>3, <2>4 DEF IInv
<1>4. ASSUME NEW what \in {"self", "data"}, Request(what)
      PROVE  IInv'
  <2>0. ses # None /\ ses \in Session /\ pc = "open"
    BY <1>4, <1>t DEF Placed, Request
  <2>h. header' # None
    BY <1>4, <1>t, <2>0 DEF Request
  <2>2. UNCHANGED <<ses, cred>> /\ pc' = "load" /\ (path' = "data" => ses.rev # 0)
    BY <1>4 DEF Request
  <2>1. Placed' /\ ConfirmedIsProven' /\ DataIsOwn'
    BY <2>0, <2>h, <2>2 DEF Placed, ConfirmedIsProven, DataIsOwn
  <2>3. QED
    BY <1>1, <1>s, <2>1, <2>2 DEF IInv
<1>5. CASE Send
  <2>1. cred' = Loaded /\ row # None /\ pc' = "sent" /\ UNCHANGED <<ses, path, header, mark, proven>> /\ pc = "load"
    BY <1>5 DEF Send, Loadable, history
  <2>2. Loaded \in Cred /\ Loaded # None
    BY <2>1, <1>t, LoadedTypes, Nones
  <2>3. Placed' /\ ConfirmedIsProven'
    BY <2>1, <2>2 DEF IInv, Placed, ConfirmedIsProven
  <2>4. DataIsOwn'
    BY <1>5, <2>1, SendIsProven DEF DataIsOwn
  <2>5. QED
    BY <1>1, <1>s, <2>1, <2>3, <2>4 DEF IInv
<1>6. CASE NeedsAction
  <2>1. cred' = Loaded /\ row # None /\ pc' = "mark" /\ mark' = "needs_action" /\ UNCHANGED <<ses, path, header>> /\ pc = "load"
    BY <1>6 DEF NeedsAction, Loadable
  <2>2. Loaded \in Cred /\ Loaded # None /\ mark' # None
    BY <2>1, <1>t, LoadedTypes, Nones
  <2>3. Placed' /\ ConfirmedIsProven' /\ DataIsOwn'
    BY <2>1, <2>2 DEF IInv, Placed, ConfirmedIsProven, DataIsOwn
  <2>4. QED
    BY <1>1, <1>s, <2>1, <2>3 DEF IInv
<1>7. CASE Confirmed
  <2>1. /\ pc = "sent" /\ pc' = "confirm" /\ UNCHANGED <<ses, path, header, mark, cred>>
        /\ NamedUser(cred) = Owner[cred.cookie] /\ <<cred.cookie, Owner[cred.cookie]>> \in proven'
    BY <1>7 DEF Confirmed, Accepts
  <2>2. NamedUser(cred)' = NamedUser(cred)
    BY <2>1 DEF NamedUser
  <2>3. Placed' /\ ConfirmedIsProven' /\ DataIsOwn'
    BY <2>1, <2>2 DEF IInv, Placed, ConfirmedIsProven, DataIsOwn
  <2>4. QED
    BY <1>1, <1>s, <2>1, <2>3 DEF IInv
<1>8. CASE DataRead
  <2>1. Placed' /\ ConfirmedIsProven' /\ DataIsOwn'
    BY <1>8, Nones DEF IInv, Placed, ConfirmedIsProven, DataIsOwn, DataRead
  <2>2. UNCHANGED ses /\ cred' = None
    BY <1>8 DEF DataRead
  <2>3. QED
    BY <1>1, <1>s, <2>1, <2>2 DEF IInv
<1>9. ASSUME NEW h \in Headers, TryNext(h)
      PROVE  IInv'
  <2>1. Placed' /\ ConfirmedIsProven' /\ DataIsOwn'
    BY <1>9, <1>t, Nones DEF IInv, Placed, ConfirmedIsProven, DataIsOwn, TryNext
  <2>2. UNCHANGED ses /\ cred' = None
    BY <1>9 DEF TryNext
  <2>3. QED
    BY <1>1, <1>s, <2>1, <2>2 DEF IInv
<1>10. CASE Rejected \/ Challenged
  <2>1. /\ pc = "sent" /\ pc' = "mark" /\ mark' # None /\ UNCHANGED <<ses, path, header, cred>>
    BY <1>10, Nones DEF Rejected, Challenged
  <2>2. Placed' /\ ConfirmedIsProven' /\ DataIsOwn'
    BY <2>1 DEF IInv, Placed, ConfirmedIsProven, DataIsOwn
  <2>3. QED
    BY <1>1, <1>s, <2>1, <2>2 DEF IInv
<1>11. CASE Close
  <2>1. /\ pc' = "idle" /\ ses' = None /\ cred' = None /\ path' = None
    BY <1>11 DEF Close, Idle
  <2>2. Placed' /\ ConfirmedIsProven' /\ DataIsOwn'
    BY <2>1, Nones DEF Placed, ConfirmedIsProven, DataIsOwn
  <2>3. Given'
    BY <1>2, <2>1 DEF IInv, Given, config
  <2>4. HeldIsStored' /\ KnownIsProven' /\ ReadyIsProven'
    BY <1>2, <2>1, QuietKeeps
  <2>5. QED
    BY <1>1, <2>2, <2>3, <2>4 DEF IInv
<1>12. QED
  BY <1>3, <1>4, <1>5, <1>6, <1>7, <1>8, <1>9, <1>10, <1>11 DEF Reads1

-----------------------------------------------------------------------------
(***************************************************************************)
(* Steps of the reader that write                                          *)
(***************************************************************************)
\* What a write has before it: the stored Cookie is the one that was sent.
LEMMA CurrentIsHeld ==
  ASSUME IInv, Current, pc \in {"confirm", "mark"}
  PROVE  /\ row \in Row /\ cred \in Cred /\ row.rev = cred.rev
         /\ row.cookie = cred.cookie /\ uid = cred.uid
<1>1. cred # None /\ row # None /\ row.rev = cred.rev
  BY DEF IInv, Placed, Current
<1>2. QED
  BY <1>1 DEF IInv, TypeOK, HeldIsStored

LEMMA MarkKeeps ==
  ASSUME IInv, Mark
  PROVE  IInv'
<1>1. row \in Row /\ mark \in {"expired", "needs_action"} /\ pc = "mark"
  BY CurrentIsHeld DEF Mark, IInv, Placed, TypeOK
<1>2. /\ row' \in Row /\ row'.rev = row.rev /\ row'.state # "ready"
  BY <1>1 DEF Mark, Row, States
<1>3. /\ pc' = "idle" /\ ses' = None /\ cred' = None /\ path' = None /\ rev' = rev
  BY DEF Mark, Idle
<1>4. TypeOK'
  BY <1>2, <1>3, Constants DEF IInv, TypeOK, Mark, Idle, upstream, history
<1>5. Placed' /\ ConfirmedIsProven' /\ DataIsOwn' /\ HeldIsStored' /\ KnownIsProven'
  BY <1>3, Nones DEF Placed, ConfirmedIsProven, DataIsOwn, HeldIsStored, KnownIsProven
<1>6. row # None
  BY <1>1, Nones
<1>7. Given' /\ ReadyIsProven'
  BY <1>2, <1>3, <1>6 DEF IInv, Given, ReadyIsProven
<1>8. QED
  BY <1>4, <1>5, <1>7 DEF IInv

\* The user the site confirmed is the account's, or becomes it.
LEMMA ConfirmKeeps ==
  ASSUME IInv, Confirm
  PROVE  IInv'
<1>1. /\ row \in Row /\ cred \in Cred /\ row.rev = cred.rev /\ row.cookie = cred.cookie
      /\ uid = cred.uid /\ ses \in Session /\ row # None /\ header \in Headers
  BY CurrentIsHeld, Nones DEF Confirm, IInv, Placed, TypeOK
<1>2. cred.uid \in Users \cup {None} /\ cred.rev \in 1..MaxRev
  BY <1>1, CredFields
<1>3. row' \in Row /\ row'.rev = row.rev /\ row'.cookie = row.cookie /\ row'.state = "ready"
  BY <1>1 DEF Confirm, Row, States
<1>4. ses' \in Session /\ ses'.rev = cred.rev
  <2>1. cred.rev \in 0..MaxRev /\ header \in Headers \cup {None}
    BY <1>1, <1>2
  <2>2. ses' = [ses EXCEPT !.rev = cred.rev, !.user = cred.uid, !.header = header]
    BY DEF Confirm
  <2>3. QED
    BY <1>1, <1>2, <2>1, <2>2, LearnedSession
<1>5. <<row.cookie, uid>> \in proven
  <2>1. NamedUser(cred) = uid /\ pc = "confirm"
    BY <1>1 DEF Confirm, NamedUser
  <2>2. QED
    BY <1>1, <2>1 DEF IInv, ConfirmedIsProven
<1>6. /\ pc' = "open" /\ path' = None /\ cred' = None /\ rev' = rev /\ uid' = uid /\ proven' = proven
  BY DEF Confirm, history
<1>7. TypeOK'
  BY <1>3, <1>4, <1>6, Constants DEF IInv, TypeOK, Confirm, upstream, history
<1>8. Placed' /\ ConfirmedIsProven' /\ DataIsOwn' /\ HeldIsStored'
  BY <1>4, <1>6, Nones DEF Placed, ConfirmedIsProven, DataIsOwn, HeldIsStored
<1>9. Given'
  BY <1>1, <1>3, <1>4, <1>6 DEF IInv, Given
<1>10. KnownIsProven' /\ ReadyIsProven'
  BY <1>3, <1>5, <1>6 DEF KnownIsProven, ReadyIsProven
<1>11. QED
  BY <1>7, <1>8, <1>9, <1>10 DEF IInv

LEMMA BindKeeps ==
  ASSUME IInv, BindIdentity
  PROVE  IInv'
<1>1. /\ row \in Row /\ cred \in Cred /\ row.cookie = cred.cookie
      /\ ses \in Session /\ row # None /\ header \in Headers /\ TypeOK
  BY CurrentIsHeld, Nones DEF BindIdentity, IInv, Placed, TypeOK
<1>2. cred.cookie \in Cookies /\ Owner[cred.cookie] \in Users
  BY <1>1, CredFields, Constants
<1>3. uid' = Owner[cred.cookie] /\ <<cred.cookie, Owner[cred.cookie]>> \in proven
  BY DEF BindIdentity, IInv, ConfirmedIsProven
<1>4. rev' \in 1..MaxRev /\ rev < rev' /\ refused' \in SUBSET Headers
  BY <1>1, NewRevTypes DEF BindIdentity
<1>5. row' \in Row /\ row'.rev = rev' /\ row'.cookie = row.cookie
  BY <1>1, <1>4 DEF BindIdentity, Row, States
<1>6. ses' \in Session /\ ses'.rev = rev'
  <2>1. rev' \in 0..MaxRev /\ header \in Headers \cup {None} /\ uid' \in Users \cup {None}
    BY <1>1, <1>2, <1>3, <1>4
  <2>2. ses' = [ses EXCEPT !.rev = rev', !.user = uid', !.header = header]
    BY DEF BindIdentity
  <2>3. QED
    BY <1>1, <2>1, <2>2, LearnedSession
<1>7. /\ pc' = "open" /\ path' = None /\ cred' = None /\ proven' = proven
  BY DEF BindIdentity
<1>8. TypeOK'
  BY <1>2, <1>3, <1>4, <1>5, <1>6, <1>7, Constants DEF IInv, TypeOK, BindIdentity, upstream
<1>9. Placed' /\ ConfirmedIsProven' /\ DataIsOwn' /\ HeldIsStored'
  BY <1>6, <1>7, Nones DEF Placed, ConfirmedIsProven, DataIsOwn, HeldIsStored
<1>10. Given'
  BY <1>4, <1>5, <1>6, <1>7, Constants DEF Given
<1>11. KnownIsProven' /\ ReadyIsProven'
  BY <1>1, <1>3, <1>5, <1>7 DEF KnownIsProven, ReadyIsProven
<1>12. QED
  BY <1>8, <1>9, <1>10, <1>11 DEF IInv

-----------------------------------------------------------------------------
(***************************************************************************)
(* What was refused before a Cookie is called expired                      *)
(***************************************************************************)
LEMMA OutsideRefusals ==
  ASSUME IInv, RInv, Outside
  PROVE  RInv'
<1>t. /\ rev \in 0..MaxRev /\ rev' \in 0..MaxRev /\ rev <= rev' /\ MaxRev \in Nat
      /\ cred \in Cred \cup {None} /\ pinned \in 0..MaxRev /\ Placed
  BY Constants DEF IInv, TypeOK, Outside
<1>u. /\ pc' = pc /\ ses' = ses /\ cands' = cands /\ header' = header
      /\ pinned' = pinned /\ cred' = cred /\ mark' = mark /\ proven' = proven
  BY DEF Outside, reader
<1>c. cred # None => cred.rev \in 1..MaxRev /\ cred.rev <= rev
  BY <1>t, CredFields DEF IInv, Given
<1>p. pc \in {"sent", "mark"} => cred # None
  BY <1>t DEF Placed
<1>k. ASSUME NEW n \in 0..MaxRev, n <= rev, n' = n
      PROVE  Covered(n) => Covered(n)'
  BY <1>k, <1>t, <1>u DEF Outside, Covered
<1>1. TriesAll'
  <2>1. pinned <= rev' /\ pinned <= rev
    BY <1>t DEF RInv, TriesAll
  <2>2. Covered(pinned) => Covered(pinned)'
    BY <2>1, <1>t, <1>u, <1>k
  <2>3. pc = "sent" /\ Covered(cred.rev) => Covered(cred.rev)'
    BY <1>t, <1>u, <1>c, <1>p, <1>k
  <2>4. QED
    BY <2>1, <2>2, <2>3, <1>u DEF RInv, TriesAll
<1>2. MarkIsRefused'
  BY <1>t, <1>u, <1>c, <1>p DEF RInv, MarkIsRefused, RefusedEnough, Outside
<1>3. ExpiredIsRefused'
  BY <1>u DEF RInv, ExpiredIsRefused, Outside
<1>4. QED
  BY <1>1, <1>2, <1>3 DEF RInv

\* A step that leaves the account and the refusals alone.
LEMMA QuietRefusals ==
  ASSUME RInv, UNCHANGED <<config, refused>>, proven \subseteq proven'
  PROVE  /\ ExpiredIsRefused'
         /\ (pc' # "mark" \/ mark' # "expired") => MarkIsRefused'
         /\ pc' \notin {"load", "sent"} /\ pinned' <= rev => TriesAll'
BY DEF RInv, ExpiredIsRefused, MarkIsRefused, TriesAll, config

\* The header is added to those refused, under the revision it was sent with.
LEMMA RefusalCovers ==
  ASSUME IInv, RInv, pc = "sent", UNCHANGED config, refused' = Refusal, proven' = proven
  PROVE  /\ ExpiredIsRefused'
         /\ row # None /\ row.rev = cred.rev /\ ses.rev # 0 =>
              <<row.cookie, uid>> \in proven /\ refused' # {}
         /\ row # None /\ row.rev = cred.rev /\ ses.rev = 0 => Headers \subseteq cands \cup refused'
<1>t. /\ header \in Headers /\ refused \in SUBSET Headers /\ ses # None /\ row' = row /\ uid' = uid
  BY DEF IInv, TypeOK, Placed, config
<1>1. refused \subseteq refused' /\ refused' \in SUBSET Headers
  BY <1>t DEF Refusal
<1>2. ExpiredIsRefused'
  BY <1>t, <1>1 DEF RInv, ExpiredIsRefused
<1>3. ASSUME row # None, row.rev = cred.rev
      PROVE  /\ ses.rev # 0 => <<row.cookie, uid>> \in proven /\ refused' # {}
             /\ ses.rev = 0 => Headers \subseteq cands \cup refused'
  <2>1. refused' = refused \cup {header}
    BY <1>3 DEF Refusal
  <2>2. ses.rev # 0 => <<row.cookie, uid>> \in proven
    BY <1>3, <1>t DEF RInv, TriesAll, IInv, KnownIsProven
  <2>3. ses.rev = 0 => Headers \subseteq cands \cup {header} \cup refused
    BY <1>3 DEF RInv, TriesAll, Covered
  <2>4. QED
    BY <2>1, <2>2, <2>3
<1>4. QED
  BY <1>2, <1>3

LEMMA ReaderRefusals ==
  ASSUME IInv, RInv, Reads1
  PROVE  RInv'
<1>t. /\ TypeOK /\ pinned \in 0..MaxRev /\ rev \in 0..MaxRev /\ MaxRev \in Nat /\ pinned <= rev
      /\ cred \in Cred \cup {None} /\ Placed
  BY Constants DEF IInv, TypeOK, RInv, TriesAll
<1>1. UNCHANGED config /\ proven \subseteq proven'
  BY DEF Reads1, Open, Request, Send, NeedsAction, Confirmed, DataRead, TryNext, Rejected,
         Challenged, Close, config, history
<1>r. rev' = rev /\ row' = row /\ uid' = uid
  BY <1>1 DEF config
<1>2. ASSUME NEW what \in {"self", "data"}, Request(what)
      PROVE  RInv'
  <2>1. /\ pinned' = 0 /\ pc' = "load" /\ ses' = ses /\ refused' = refused
        /\ cands' = (IF what = "self" /\ ses.rev = 0 THEN Headers \ {header'} ELSE {})
        /\ what = "data" => ses.rev # 0
    BY <1>2 DEF Request, history
  <2>2. TriesAll'
    BY <2>1, <1>t, <1>r DEF TriesAll
  <2>3. QED
    BY <2>1, <2>2, <1>1, QuietRefusals DEF RInv
<1>3. CASE Send
  <2>1. /\ pc = "load" /\ pc' = "sent" /\ row # None /\ cred' = Loaded /\ SameSession(Loaded)
        /\ pinned \in {0, row.rev} /\ refused' = refused
        /\ UNCHANGED <<ses, cands, header, pinned>>
    BY <1>3 DEF Send, Loadable, history
  <2>2. cred'.rev = row.rev /\ row.rev \in 1..MaxRev
    BY <2>1, <1>t, LoadedTypes, RowFields DEF TypeOK
  <2>3. ses.rev = 0 => Headers \subseteq cands \cup {header} \cup refused
    BY <2>1, <2>2 DEF RInv, TriesAll, Covered
  <2>4. ses.rev # 0 => cred'.rev = ses.rev
    BY <2>1 DEF SameSession
  <2>5. TriesAll'
    BY <2>1, <2>3, <2>4, <1>t, <1>r DEF TriesAll, Covered
  <2>6. QED
    BY <2>1, <2>5, <1>1, QuietRefusals DEF RInv
<1>4. ASSUME NEW h \in Headers, TryNext(h)
      PROVE  RInv'
  <2>1. /\ pc = "sent" /\ pc' = "load" /\ ses' = ses /\ header' = h /\ cands' = cands \ {h}
        /\ pinned' = cred.rev /\ refused' = Refusal /\ proven' = proven
    BY <1>4 DEF TryNext
  <2>2. cred \in Cred /\ cred.rev \in 1..MaxRev /\ cred.rev <= rev
    BY <2>1, <1>t, CredFields DEF Placed, IInv, Given
  <2>3. row # None /\ row.rev = cred.rev /\ ses.rev = 0 => Headers \subseteq cands \cup refused'
    BY <2>1, <1>1, RefusalCovers
  <2>4. TriesAll'
    BY <2>1, <2>2, <2>3, <1>r DEF TriesAll, Covered
  <2>5. ExpiredIsRefused' /\ MarkIsRefused'
    BY <2>1, <1>1, RefusalCovers DEF MarkIsRefused
  <2>6. QED
    BY <2>4, <2>5 DEF RInv
<1>5. CASE Rejected
  <2>1. /\ pc = "sent" /\ pc' = "mark" /\ cands = {} /\ cred' = cred /\ pinned' = pinned
        /\ refused' = Refusal /\ proven' = proven
    BY <1>5 DEF Rejected, LastRefusal
  <2>2. refused' \in SUBSET Headers
    BY <2>1, <1>t, ReaderTypes DEF TypeOK
  <2>3. ses.rev \in 0..MaxRev
    BY <2>1, <1>t, SessionFields DEF Placed, TypeOK
  <2>4. row # None /\ row.rev = cred.rev =>
          refused' = Headers \/ (<<row.cookie, uid>> \in proven /\ refused' # {})
    BY <2>1, <2>2, <1>1, RefusalCovers
  <2>5. MarkIsRefused'
    BY <2>1, <2>4, <1>r DEF MarkIsRefused, RefusedEnough
  <2>6. TriesAll'
    BY <2>1, <1>t, <1>r DEF TriesAll
  <2>7. ExpiredIsRefused'
    BY <2>1, <1>1, RefusalCovers
  <2>8. QED
    BY <2>5, <2>6, <2>7 DEF RInv
<1>6. CASE \/ (\E explicit \in BOOLEAN : Open(explicit)) \/ NeedsAction \/ Confirmed
           \/ DataRead \/ Challenged \/ Close
  <2>1. /\ refused' = refused /\ pc' \notin {"load", "sent"} /\ pinned' \in {pinned, 0}
        /\ pc' = "mark" => mark' = "needs_action"
    BY <1>6 DEF Open, NeedsAction, Confirmed, DataRead, Challenged, Close, Idle, history
  <2>2. pinned' <= rev /\ (pc' # "mark" \/ mark' # "expired")
    BY <2>1, <1>t
  <2>3. QED
    BY <2>1, <2>2, <1>1, QuietRefusals DEF RInv
<1>7. QED
  BY <1>2, <1>3, <1>4, <1>5, <1>6 DEF Reads1

\* Only the mark calls a Cookie expired.
LEMMA WriterRefusals ==
  ASSUME IInv, RInv, Mark \/ Confirm \/ BindIdentity
  PROVE  RInv'
<1>t. /\ rev \in 0..MaxRev /\ MaxRev \in Nat /\ pinned <= rev
  BY Constants DEF IInv, TypeOK, RInv, TriesAll
<1>c. /\ row \in Row /\ row # None /\ row.rev = cred.rev
  BY CurrentIsHeld, Nones DEF Mark, Confirm, BindIdentity
<1>1. CASE Mark
  <2>1. /\ row'.state = mark /\ row'.cookie = row.cookie /\ uid' = uid /\ proven' = proven
        /\ refused' = refused /\ pc' = "idle" /\ pinned' = 0 /\ rev' = rev /\ pc = "mark"
    BY <1>1, <1>c DEF Mark, Idle, history, Row
  <2>2. TriesAll' /\ MarkIsRefused'
    BY <2>1, <1>t DEF TriesAll, MarkIsRefused
  <2>3. ExpiredIsRefused'
    BY <2>1, <1>c DEF RInv, MarkIsRefused, RefusedEnough, ExpiredIsRefused
  <2>4. QED
    BY <2>2, <2>3 DEF RInv
<1>2. CASE Confirm \/ BindIdentity
  <2>1. row'.state = "ready" /\ pc' = "open" /\ pinned' = 0 /\ (rev' = rev \/ rev' = rev + 1)
    BY <1>2, <1>c DEF Confirm, BindIdentity, NewRev, Row
  <2>2. TriesAll' /\ MarkIsRefused' /\ ExpiredIsRefused'
    BY <2>1, <1>t DEF TriesAll, MarkIsRefused, ExpiredIsRefused
  <2>3. QED
    BY <2>2 DEF RInv
<1>3. QED
  BY <1>1, <1>2

-----------------------------------------------------------------------------
(***************************************************************************)
(* The theorems                                                            *)
(***************************************************************************)
LEMMA InitInv == Init => IInv
<1> SUFFICES ASSUME Init
             PROVE  IInv
  OBVIOUS
<1>1. TypeOK
  BY Constants DEF Init, TypeOK
<1>2. Placed /\ Given /\ HeldIsStored /\ KnownIsProven /\ ConfirmedIsProven /\ ReadyIsProven /\ DataIsOwn
  BY Nones DEF Init, Placed, Given, HeldIsStored, KnownIsProven, ConfirmedIsProven, ReadyIsProven, DataIsOwn
<1>3. QED
  BY <1>1, <1>2 DEF IInv

LEMMA StepInv == IInv /\ [Next]_vars => IInv'
<1> SUFFICES ASSUME IInv, [Next]_vars
             PROVE  IInv'
  OBVIOUS
<1>1. CASE \/ \E c \in Cookies, on \in BOOLEAN : Save(c, on)
           \/ Clear \/ (\E u \in Users \cup {None} : SetUser(u))
           \/ SetActive \/ (\E b \in Sites : SetSite(b)) \/ (\E c \in Cookies : LogOut(c))
  <2>1. Outside
    BY <1>1, OutsideSteps DEF IInv
  <2>2. QED
    BY <2>1, OutsideKeeps
<1>2. CASE Reads1
  BY <1>2, ReaderKeeps
<1>3. CASE Mark
  BY <1>3, MarkKeeps
<1>4. CASE Confirm
  BY <1>4, ConfirmKeeps
<1>5. CASE BindIdentity
  BY <1>5, BindKeeps
<1>6. CASE UNCHANGED vars
  BY <1>6 DEF vars, config, upstream, history, IInv, TypeOK, Placed, Given, HeldIsStored, KnownIsProven,
              ConfirmedIsProven, ReadyIsProven, DataIsOwn, NamedUser
<1>7. QED
  BY <1>1, <1>2, <1>3, <1>4, <1>5, <1>6 DEF Next, Reads1

(* What the reader holds agrees with what is stored, in every reachable state:
   the invariant that the theorems below are read from. *)
THEOREM Inductive == Spec => []IInv
BY InitInv, StepInv, PTL DEF Spec

(* The variables have the types the code gives them. *)
THEOREM TypeCorrect == Spec => []TypeOK
<1>1. IInv => TypeOK
  BY DEF IInv
<1>2. QED
  BY <1>1, Inductive, PTL

(* cookie_identity.go:52, confirmIdentity: a stored Cookie is called ready only when the site
   confirmed it for the user the account has now. *)
THEOREM ReadyProven == Spec => []ReadyIsProven
<1>1. IInv => ReadyIsProven
  BY DEF IInv
<1>2. QED
  BY <1>1, Inductive, PTL

(* cookie_access.go:140-168, Do: Keys and prices are read only with a Cookie that
   the site confirmed to be the account's. *)
THEOREM DataOwn == Spec => []DataIsOwn
<1>1. IInv => DataIsOwn
  BY DEF IInv
<1>2. QED
  BY <1>1, Inductive, PTL

LEMMA InitRefusals == Init => RInv
BY DEF Init, RInv, TriesAll, MarkIsRefused, ExpiredIsRefused

LEMMA StepRefusals == IInv /\ RInv /\ [Next]_vars => RInv'
<1> SUFFICES ASSUME IInv, RInv, [Next]_vars
             PROVE  RInv'
  OBVIOUS
<1>1. CASE \/ \E c \in Cookies, on \in BOOLEAN : Save(c, on)
           \/ Clear \/ (\E u \in Users \cup {None} : SetUser(u))
           \/ SetActive \/ (\E b \in Sites : SetSite(b)) \/ (\E c \in Cookies : LogOut(c))
  <2>1. Outside
    BY <1>1, OutsideSteps DEF IInv
  <2>2. QED
    BY <2>1, OutsideRefusals
<1>2. CASE Reads1
  BY <1>2, ReaderRefusals
<1>3. CASE Mark \/ Confirm \/ BindIdentity
  BY <1>3, WriterRefusals
<1>4. CASE UNCHANGED vars
  BY <1>4 DEF vars, config, upstream, history, RInv, TriesAll, Covered, MarkIsRefused, RefusedEnough,
              ExpiredIsRefused
<1>5. QED
  BY <1>1, <1>2, <1>3, <1>4 DEF Next, Reads1

(* cookie_access.go:188-214, send: a stored Cookie is called expired only when the
   site refused it, under its present revision, for every header or, once a header
   had worked, for that one. *)
THEOREM ExpiredRefused == Spec => []ExpiredIsRefused
<1>1. RInv => ExpiredIsRefused
  BY DEF RInv
<1>2. QED
  BY <1>1, Inductive, InitRefusals, StepRefusals, PTL DEF Spec

LEMMA StepBinds ==
  ASSUME IInv, Next, pc = "confirm", uid' # uid, pc' = "open"
  PROVE  uid = None /\ row # None /\ Owner[row.cookie] = uid'
<1>1. BindIdentity
  BY DEF Next, Save, Clear, SetUser, SetActive, SetSite, LogOut, Open, Request, Send, NeedsAction, Confirmed,
         DataRead, TryNext, Rejected, Challenged, Mark, Confirm, Close, Idle, config, reader
<1>2. row.cookie = cred.cookie /\ row # None
  BY <1>1, CurrentIsHeld, Nones DEF BindIdentity
<1>3. uid' = Owner[cred.cookie] /\ uid = None
  BY <1>1 DEF BindIdentity, IInv, ConfirmedIsProven
<1>4. QED
  BY <1>2, <1>3

(* cookie_credentials.go:273, BindIdentity: an account is bound only to the user of the
   Cookie it has at that moment. *)
THEOREM BoundToOwner == Spec => BindsOwner
<1>1. IInv /\ [Next]_vars =>
        [ (pc = "confirm" /\ uid' # uid /\ pc' = "open")
            => uid = None /\ row # None /\ Owner[row.cookie] = uid' ]_vars
  BY StepBinds
<1>2. QED
  BY <1>1, Inductive, PTL DEF Spec, BindsOwner
=============================================================================
