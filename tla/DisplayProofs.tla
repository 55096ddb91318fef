---------------------------- MODULE DisplayProofs ----------------------------
(***************************************************************************)
(* Proofs about Display.                                                   *)
(*                                                                         *)
(* The type holds for any number of fetch threads.  The rest is about one: *)
(* Numbered says where the thread stands with the id it took, Scanned      *)
(* which rows a plain filter may still owe, Untouched what the list shows  *)
(* as long as the user leaves it alone.                                    *)
(***************************************************************************)
EXTENDS Display, TLAPS

(* What the type needs to be inductive: a row that is held against the      *)
(* keyword is there, and the scan counts from 1.                            *)
DisplayInv ==
    /\ DisplayTypeOK
    /\ win.index >= 1
    /\ \A f \in Fetchers : fetch[f].pc \in {"match", "add"} => m_vDisplay # <<>>

(* Fetch thread f and the next id: nothing else counts it on.               *)
Numbered(f) ==
    /\ fetch[f].pc \in {"load", "store"} => fetch[f].mID = m_nNextMessageID
    /\ fetch[f].pc = "store" => fetch[f].reg = m_nNextMessageID
    /\ fetch[f].pc = "push" =>
          /\ fetch[f].mID + 1 = m_nNextMessageID
          /\ \A r \in DOMAIN m_vDisplay : m_vDisplay[r].mID < fetch[f].mID

(* The newest row is the one that the thread holds against the keyword; a   *)
(* row that matches a plain filter is among the matches, about to be, or    *)
(* the scan has still to come to it.                                        *)
Scanned(f) ==
    /\ fetch[f].pc = "match" => m_vDisplay[Len(m_vDisplay)].text = fetch[f].text
    /\ win.pc # "clear" /\ m_keyword # Empty /\ ~m_bFilterRegex =>
          \A r \in DOMAIN m_vDisplay :
              m_vDisplay[r].text \in find[m_keyword] =>
                  \/ r \in ToSet(m_vFiltered)
                  \/ Pending(f, r)
                  \/ win.pc = "scan" /\ r >= win.index

(* A list that the user leaves alone is one row behind while the thread     *)
(* hands a row over, and at its end up to the last step.                    *)
Untouched(f) ==
    ~count.touched =>
        /\ win.pc = "idle" /\ m_keyword = Empty /\ m_vFiltered = <<>> /\ ~list.selected
        /\ fetch[f].pc # "add"
        /\ fetch[f].pc \in {"idle", "load", "store", "push"} =>
              list.count = Len(m_vDisplay) /\ list.top = LastTop(list.count)
        /\ fetch[f].pc \in {"match", "look", "size", "send"} =>
              list.count + 1 = Len(m_vDisplay) /\ list.top = LastTop(list.count)
        /\ fetch[f].pc = "size" => fetch[f].all
        /\ fetch[f].pc = "send" => fetch[f].tell = Len(m_vDisplay)
        /\ fetch[f].pc = "scroll" =>
              list.count = Len(m_vDisplay) /\ list.count > 0 /\ list.top = LastTop(list.count - 1)

-----------------------------------------------------------------------------
(* The type. *)

Fetches == [Fetchers -> [pc : FetchPoints, mID : Nat, reg : Nat, text : Texts,
                         display : BOOLEAN, all : BOOLEAN, tell : Nat]]

(* A sequence of row numbers stays one when rows are added.                 *)
LEMMA MoreRows ==
    ASSUME NEW m \in Nat, NEW n \in Nat, m <= n, NEW s \in Seq(1 .. m)
    PROVE  s \in Seq(1 .. n)
<1>1. 1 .. m \subseteq 1 .. n
    OBVIOUS
<1>2. \A i \in 1 .. Len(s) : s[i] \in 1 .. n
    BY <1>1
<1> QED
    BY <1>2

LEMMA InitDisplay == Init => DisplayInv
<1> SUFFICES ASSUME Init PROVE DisplayInv
    OBVIOUS
<1> USE DisplayBounds
<1>1. (CHOOSE t \in Texts : TRUE) \in Texts
    OBVIOUS
<1>2. fetch \in [Fetchers -> [pc : FetchPoints, mID : Nat, reg : Nat, text : Texts,
                               display : BOOLEAN, all : BOOLEAN, tell : Nat]]
    BY <1>1 DEF Init, FetchPoints
<1>3. list.top <= LastTop(list.count)
    BY DEF Init, LastTop
<1>4. win \in [pc : WinPoints, index : Nat] /\ win.index >= 1
    BY DEF Init, WinPoints
<1>5. \A f \in Fetchers : fetch[f].pc = "idle"
    BY DEF Init
<1>6. count \in [messages : 0 .. MaxMessages, filters : 0 .. MaxFilters, touched : BOOLEAN]
    BY DEF Init
<1>7. list \in [count : Nat, top : Nat, selected : BOOLEAN]
    BY DEF Init
<1>8. m_vDisplay \in Seq(Rows) /\ m_vFiltered \in Seq(1 .. Len(m_vDisplay))
    BY DEF Init
<1> QED
    BY <1>2, <1>3, <1>4, <1>5, <1>6, <1>7, <1>8 DEF Init, DisplayInv, DisplayTypeOK

-----------------------------------------------------------------------------
(* What each step makes of a thread's record. *)

(* Thread f alone moves.                                                    *)
Alone(f) == fetch' \in Fetches /\ \A k \in Fetchers : k # f => fetch'[k] = fetch[k]

LEMMA GoStep ==
    ASSUME fetch \in Fetches, NEW f \in Fetchers, NEW p \in FetchPoints, Go(f, p)
    PROVE  /\ Alone(f)
           /\ fetch'[f].pc = p /\ fetch'[f].mID = fetch[f].mID /\ fetch'[f].text = fetch[f].text
           /\ fetch'[f].all = fetch[f].all /\ fetch'[f].tell = fetch[f].tell
<1>1. fetch' = [fetch EXCEPT ![f].pc = p]
    BY DEF Go
<1>2. fetch' \in Fetches
    BY <1>1 DEF Fetches
<1>3. /\ fetch'[f].pc = p /\ fetch'[f].mID = fetch[f].mID /\ fetch'[f].text = fetch[f].text
      /\ fetch'[f].all = fetch[f].all /\ fetch'[f].tell = fetch[f].tell
      /\ \A k \in Fetchers : k # f => fetch'[k] = fetch[k]
    BY <1>1 DEF Fetches
<1> QED
    BY <1>2, <1>3 DEF Alone

LEMMA ParseStep ==
    ASSUME fetch \in Fetches, m_nNextMessageID \in Nat, NEW f \in Fetchers, Parse(f)
    PROVE  /\ Alone(f)
           /\ fetch[f].pc = "idle" /\ fetch'[f].pc \in {"idle", "load"}
           /\ fetch'[f].mID = m_nNextMessageID
<1>1. PICK protocol \in Protocols, level \in 0 .. 3, hideRaffle \in BOOLEAN, t \in Texts :
          LET fate == Fate(protocol, level, hideRaffle)
          IN  fetch' = [fetch EXCEPT ![f].mID = m_nNextMessageID,
                                     ![f].text = t,
                                     ![f].display = fate = "display",
                                     ![f].pc = IF fate = "ignore" THEN "idle" ELSE "load"]
    BY Zenon DEF Parse
<1> DEFINE fate == Fate(protocol, level, hideRaffle)
           shown == fate = "display"
           p == IF fate = "ignore" THEN "idle" ELSE "load"
           one == [fetch EXCEPT ![f].mID = m_nNextMessageID]
           two == [one EXCEPT ![f].text = t]
           three == [two EXCEPT ![f].display = shown]
<1> HIDE DEF fate
<1>2. p \in FetchPoints /\ p \in {"idle", "load"} /\ shown \in BOOLEAN
    BY DEF FetchPoints
<1>3. fetch' = [three EXCEPT ![f].pc = p]
    BY <1>1, Zenon DEF fate, Fetches
<1> HIDE DEF p, shown
<1>4. one \in Fetches
    BY DEF Fetches
<1>5. one[f].mID = m_nNextMessageID /\ \A k \in Fetchers : k # f => one[k] = fetch[k]
    BY DEF Fetches
<1> HIDE DEF one
<1>6. two \in Fetches
    BY <1>4 DEF Fetches
<1>7. two[f].mID = m_nNextMessageID /\ \A k \in Fetchers : k # f => two[k] = fetch[k]
    BY <1>4, <1>5 DEF Fetches
<1> HIDE DEF two
<1>8. three \in Fetches
    BY <1>2, <1>6 DEF Fetches
<1>9. three[f].mID = m_nNextMessageID /\ \A k \in Fetchers : k # f => three[k] = fetch[k]
    BY <1>6, <1>7 DEF Fetches
<1> HIDE DEF three
<1>10. fetch' \in Fetches
    BY <1>2, <1>3, <1>8 DEF Fetches
<1>11. /\ fetch'[f].mID = m_nNextMessageID /\ fetch'[f].pc = p
       /\ \A k \in Fetchers : k # f => fetch'[k] = fetch[k]
    BY <1>3, <1>8, <1>9 DEF Fetches
<1>12. fetch[f].pc = "idle"
    BY Zenon DEF Parse, At
<1> QED
    BY <1>2, <1>10, <1>11, <1>12 DEF Alone

LEMMA LoadStep ==
    ASSUME fetch \in Fetches, m_nNextMessageID \in Nat, NEW f \in Fetchers, LoadID(f)
    PROVE  /\ Alone(f)
           /\ fetch[f].pc = "load" /\ fetch'[f].pc = "store"
           /\ fetch'[f].mID = fetch[f].mID /\ fetch'[f].reg = m_nNextMessageID
<1> DEFINE one == [fetch EXCEPT ![f].pc = "store"]
<1>1. fetch[f].pc = "load" /\ fetch' = [one EXCEPT ![f].reg = m_nNextMessageID]
    BY Zenon DEF LoadID, At
<1>2. one \in Fetches
    BY DEF Fetches, FetchPoints
<1>3. /\ one[f].pc = "store" /\ one[f].mID = fetch[f].mID
      /\ \A k \in Fetchers : k # f => one[k] = fetch[k]
    BY DEF Fetches
<1> HIDE DEF one
<1>4. fetch' \in Fetches
    BY <1>1, <1>2 DEF Fetches
<1>5. /\ fetch'[f].pc = "store" /\ fetch'[f].mID = fetch[f].mID
      /\ fetch'[f].reg = m_nNextMessageID
      /\ \A k \in Fetchers : k # f => fetch'[k] = fetch[k]
    BY <1>1, <1>2, <1>3 DEF Fetches
<1> QED
    BY <1>1, <1>4, <1>5 DEF Alone

LEMMA LookStep ==
    ASSUME fetch \in Fetches, NEW f \in Fetchers, LookFiltered(f)
    PROVE  /\ Alone(f)
           /\ fetch[f].pc = "look" /\ fetch'[f].pc = "size"
           /\ m_vFiltered = <<>> => fetch'[f].all
<1> DEFINE one == [fetch EXCEPT ![f].pc = "size"]
           none == m_vFiltered = <<>>
<1>1. fetch[f].pc = "look" /\ fetch' = [one EXCEPT ![f].all = none]
    BY Zenon DEF LookFiltered, At
<1>2. one \in Fetches
    BY DEF Fetches, FetchPoints
<1>3. one[f].pc = "size" /\ \A k \in Fetchers : k # f => one[k] = fetch[k]
    BY DEF Fetches
<1>4. none \in BOOLEAN /\ (m_vFiltered = <<>> => none)
    OBVIOUS
<1> HIDE DEF one, none
<1>5. fetch' \in Fetches
    BY <1>1, <1>2, <1>4 DEF Fetches
<1>6. /\ fetch'[f].pc = "size" /\ fetch'[f].all = none
      /\ \A k \in Fetchers : k # f => fetch'[k] = fetch[k]
    BY <1>1, <1>2, <1>3 DEF Fetches
<1> QED
    BY <1>1, <1>4, <1>5, <1>6 DEF Alone

LEMMA SizeStep ==
    ASSUME fetch \in Fetches, m_vDisplay \in Seq(Rows),
           m_vFiltered \in Seq(1 .. Len(m_vDisplay)), NEW f \in Fetchers, LookSize(f)
    PROVE  /\ Alone(f)
           /\ fetch[f].pc = "size" /\ fetch'[f].pc = "send"
           /\ fetch[f].all => fetch'[f].tell = Len(m_vDisplay)
<1> DEFINE one == [fetch EXCEPT ![f].pc = "send"]
           n == Len(IF fetch[f].all THEN m_vDisplay ELSE m_vFiltered)
<1>1. fetch[f].pc = "size" /\ fetch' = [one EXCEPT ![f].tell = n]
    BY Zenon DEF LookSize, At
<1>2. n \in Nat /\ (fetch[f].all => n = Len(m_vDisplay))
    OBVIOUS
<1>3. one \in Fetches
    BY DEF Fetches, FetchPoints
<1>4. one[f].pc = "send" /\ \A k \in Fetchers : k # f => one[k] = fetch[k]
    BY DEF Fetches
<1> HIDE DEF one, n
<1>5. fetch' \in Fetches
    BY <1>1, <1>2, <1>3 DEF Fetches
<1>6. /\ fetch'[f].pc = "send" /\ fetch'[f].tell = n
      /\ \A k \in Fetchers : k # f => fetch'[k] = fetch[k]
    BY <1>1, <1>3, <1>4 DEF Fetches
<1> QED
    BY <1>1, <1>2, <1>5, <1>6 DEF Alone

(* What a step of a thread leaves alone, as single equations.               *)
LEMMA FetchLeaves ==
    ASSUME NEW f \in Fetchers
    PROVE  /\ Parse(f) => UNCHANGED <<m_nNextMessageID, m_vDisplay, m_vFiltered,
                                      m_keyword, m_bFilterRegex, win, list>>
           /\ LoadID(f) \/ Match(f) \/ LookFiltered(f) \/ LookSize(f) =>
                 UNCHANGED <<m_nNextMessageID, m_vDisplay, m_vFiltered,
                             m_keyword, m_bFilterRegex, win, list, count>>
           /\ StoreID(f) => UNCHANGED <<m_vDisplay, m_vFiltered, m_keyword,
                                        m_bFilterRegex, win, list, count>>
           /\ PushRow(f) => UNCHANGED <<m_nNextMessageID, m_vFiltered, m_keyword,
                                        m_bFilterRegex, win, list, count>>
           /\ AddMatch(f) => UNCHANGED <<m_nNextMessageID, m_vDisplay, m_keyword,
                                         m_bFilterRegex, win, list, count>>
           /\ SetCount(f) \/ Scroll(f) =>
                 UNCHANGED <<m_nNextMessageID, m_vDisplay, m_vFiltered,
                             m_keyword, m_bFilterRegex, win, count>>
BY Zenon DEF Parse, LoadID, Match, LookFiltered, LookSize, StoreID, PushRow, AddMatch,
       SetCount, Scroll, filterVars

(* Thread f moves from one point to the next and nothing else of it counts. *)
LEMMA PointStep ==
    ASSUME fetch \in Fetches, NEW f \in Fetchers
    PROVE  /\ StoreID(f) => /\ fetch[f].pc = "store" /\ Go(f, fetch'[f].pc)
                            /\ fetch'[f].pc \in {"push", "idle"}
                            /\ m_nNextMessageID' = fetch[f].reg + 1
           /\ PushRow(f) => /\ fetch[f].pc = "push" /\ Go(f, "match")
                            /\ m_vDisplay' = Append(m_vDisplay, [mID |-> fetch[f].mID,
                                                                text |-> fetch[f].text])
           /\ Match(f) => fetch[f].pc = "match"
           /\ AddMatch(f) => /\ fetch[f].pc = "add" /\ Go(f, "look")
                             /\ m_vFiltered' = Append(m_vFiltered, Len(m_vDisplay))
           /\ SetCount(f) => /\ fetch[f].pc = "send" /\ Go(f, "scroll") /\ win.pc = "idle"
                             /\ list' = WithCount(list, fetch[f].tell)
           /\ Scroll(f) => /\ fetch[f].pc = "scroll" /\ Go(f, "idle") /\ win.pc = "idle"
                           /\ list' = Scrolled(list)
<1>1. ASSUME StoreID(f)
      PROVE  /\ fetch[f].pc = "store" /\ Go(f, fetch'[f].pc)
             /\ fetch'[f].pc \in {"push", "idle"} /\ m_nNextMessageID' = fetch[f].reg + 1
    <2> DEFINE p == IF fetch[f].display THEN "push" ELSE "idle"
    <2>1. fetch[f].pc = "store" /\ Go(f, p) /\ m_nNextMessageID' = fetch[f].reg + 1
        BY <1>1 DEF StoreID, At
    <2>2. p \in {"push", "idle"} /\ p \in FetchPoints
        BY DEF FetchPoints
    <2> HIDE DEF p
    <2>3. fetch'[f].pc = p
        BY <2>1, <2>2, GoStep
    <2> QED
        BY <2>1, <2>2, <2>3
<1> QED
    BY <1>1 DEF PushRow, Match, AddMatch, SetCount, Scroll, At

LEMMA MatchStep ==
    ASSUME fetch \in Fetches, NEW f \in Fetchers, Match(f)
    PROVE  /\ Alone(f) /\ fetch[f].pc = "match"
           /\ fetch'[f].pc \in {"add", "look"}
           /\ fetch'[f].pc = "look" <=>
                  ~(m_keyword # Empty /\ fetch[f].text \in find[m_keyword])
<1> DEFINE hit == m_keyword # Empty /\ fetch[f].text \in find[m_keyword]
           p == IF hit THEN "add" ELSE "look"
<1>1. fetch[f].pc = "match" /\ Go(f, p)
    BY DEF Match, At
<1>2. p \in {"add", "look"} /\ p \in FetchPoints /\ (p = "look" <=> ~hit)
    BY DEF FetchPoints
<1> HIDE DEF p
<1> QED
    BY <1>1, <1>2, GoStep

-----------------------------------------------------------------------------
(* The list. *)

Lists == [count : Nat, top : Nat, selected : BOOLEAN]

LEMMA LastTopNat == \A n \in Nat : LastTop(n) \in Nat
BY DisplayBounds DEF LastTop

LEMMA CountSet ==
    ASSUME NEW l \in Lists, NEW n \in Nat
    PROVE  /\ WithCount(l, n) \in Lists
           /\ WithCount(l, n).count = n
           /\ WithCount(l, n).top = IF l.top > LastTop(n) THEN LastTop(n) ELSE l.top
           /\ WithCount(l, n).selected = l.selected
<1> DEFINE one == [l EXCEPT !.count = n]
           t == IF one.top > LastTop(n) THEN LastTop(n) ELSE one.top
<1>1. one \in Lists /\ one.count = n /\ one.top = l.top /\ one.selected = l.selected
    BY DEF Lists
<1>2. WithCount(l, n) = [one EXCEPT !.top = t]
    BY Zenon DEF WithCount
<1>3. t \in Nat /\ t = IF l.top > LastTop(n) THEN LastTop(n) ELSE l.top
    BY <1>1, LastTopNat DEF Lists
<1> HIDE DEF one, t
<1>4. /\ WithCount(l, n) \in Lists /\ WithCount(l, n).count = n
      /\ WithCount(l, n).top = t /\ WithCount(l, n).selected = l.selected
    BY <1>1, <1>2, <1>3 DEF Lists
<1> QED
    BY <1>3, <1>4

LEMMA ListScrolls ==
    ASSUME NEW l \in Lists
    PROVE  /\ Scrolled(l) \in Lists
           /\ Scrolled(l).count = l.count /\ Scrolled(l).selected = l.selected
           /\ Scrolled(l).top = IF scrollLocked(l) THEN l.top ELSE LastTop(l.count)
<1>1. LastTop(l.count) \in Nat
    BY LastTopNat DEF Lists
<1> QED
    BY <1>1 DEF Scrolled, Lists

(* The top row is never beyond the last that fills the page.                *)
LEMMA TopStays ==
    ASSUME NEW l \in Lists, l.top <= LastTop(l.count)
    PROVE  /\ \A n \in Nat : WithCount(l, n).top <= LastTop(WithCount(l, n).count)
           /\ Scrolled(l).top <= LastTop(Scrolled(l).count)
<1>1. LastTop(l.count) \in Nat /\ \A n \in Nat : LastTop(n) \in Nat
    BY LastTopNat DEF Lists
<1>2. l.top \in Nat
    BY DEF Lists
<1>3. ASSUME NEW n \in Nat PROVE WithCount(l, n).top <= LastTop(WithCount(l, n).count)
    <2>1. /\ WithCount(l, n).count = n
          /\ WithCount(l, n).top = IF l.top > LastTop(n) THEN LastTop(n) ELSE l.top
        BY CountSet
    <2>2. LastTop(n) \in Nat
        BY <1>1
    <2> QED
        BY <1>2, <2>1, <2>2
<1>4. Scrolled(l).top <= LastTop(Scrolled(l).count)
    BY <1>1, <1>2, ListScrolls
<1> QED
    BY <1>3, <1>4

-----------------------------------------------------------------------------
(* The type, step by step. *)

Counts == [messages : 0 .. MaxMessages, filters : 0 .. MaxFilters, touched : BOOLEAN]

(* The rows: a sequence of rows, and numbers of them.                       *)
RowsOK == m_vDisplay \in Seq(Rows) /\ m_vFiltered \in Seq(1 .. Len(m_vDisplay))

(* Who is about to look at the newest row, has one to look at.              *)
RowThere == \A f \in Fetchers : fetch[f].pc \in {"match", "add"} => m_vDisplay # <<>>

(* The type in parts, each of which a step leaves alone or renews.          *)
TypeParts ==
    /\ m_nNextMessageID \in Nat /\ RowsOK
    /\ m_keyword \in Patterns \cup {Empty} /\ m_bFilterRegex \in BOOLEAN
    /\ fetch \in Fetches
    /\ win \in [pc : WinPoints, index : Nat] /\ win.index >= 1
    /\ list \in Lists /\ list.top <= LastTop(list.count)
    /\ count \in Counts
    /\ RowThere

LEMMA Parts == DisplayInv <=> TypeParts
BY Zenon DEF DisplayInv, DisplayTypeOK, TypeParts, RowsOK, Fetches, Lists, Counts, RowThere

LEMMA PartsNext == DisplayInv' <=> TypeParts'
BY Parts, PTL

LEMMA RowsKept ==
    ASSUME RowsOK, UNCHANGED <<m_vDisplay, m_vFiltered>>
    PROVE  RowsOK'
BY DEF RowsOK

LEMMA FetchKeepsType ==
    ASSUME DisplayInv, NEW f \in Fetchers,
           Parse(f) \/ ParseOn(f) \/ SetCount(f) \/ Scroll(f)
    PROVE  DisplayInv'
<1>1. /\ m_nNextMessageID \in Nat /\ RowsOK
      /\ m_keyword \in Patterns \cup {Empty} /\ m_bFilterRegex \in BOOLEAN
      /\ fetch \in Fetches
      /\ win \in [pc : WinPoints, index : Nat] /\ win.index >= 1
      /\ list \in Lists /\ list.top <= LastTop(list.count)
      /\ count \in Counts
      /\ RowThere
    BY Parts DEF TypeParts
<1>2. \A k \in Fetchers : fetch[k] \in [pc : FetchPoints, mID : Nat, reg : Nat, text : Texts,
                                         display : BOOLEAN, all : BOOLEAN, tell : Nat]
    BY <1>1 DEF Fetches
<1>3. m_vDisplay \in Seq(Rows) /\ m_vFiltered \in Seq(1 .. Len(m_vDisplay))
    BY <1>1 DEF RowsOK
<1>4. CASE Parse(f)
    <2>1. Alone(f) /\ fetch'[f].pc \in {"idle", "load"}
        BY <1>1, <1>4, ParseStep
    <2>2. count' \in Counts
        <3>1. count.messages < MaxMessages /\ count' = [count EXCEPT !.messages = @ + 1]
            BY <1>4, Zenon DEF Parse
        <3> QED
            BY <1>1, <3>1, DisplayBounds DEF Counts
    <2>3. RowThere'
        BY <1>1, <1>4, <2>1, FetchLeaves DEF Alone, RowThere
    <2> QED
        BY <1>1, <1>4, <2>1, <2>2, <2>3, FetchLeaves, RowsKept, PartsNext DEF Alone, TypeParts
<1>5. CASE LoadID(f)
    <2>1. Alone(f) /\ fetch'[f].pc = "store"
        BY <1>1, <1>5, LoadStep
    <2>2. RowThere'
        BY <1>1, <1>5, <2>1, FetchLeaves DEF Alone, RowThere
    <2> QED
        BY <1>1, <1>5, <2>1, <2>2, FetchLeaves, RowsKept, PartsNext DEF Alone, TypeParts
<1>6. CASE StoreID(f)
    <2>1. /\ Alone(f) /\ fetch'[f].pc \in {"push", "idle"}
          /\ m_nNextMessageID' = fetch[f].reg + 1
        <3>1. /\ Go(f, fetch'[f].pc) /\ fetch'[f].pc \in {"push", "idle"}
              /\ m_nNextMessageID' = fetch[f].reg + 1
            BY <1>1, <1>6, PointStep
        <3>2. fetch'[f].pc \in FetchPoints
            BY <3>1 DEF FetchPoints
        <3> QED
            BY <1>1, <3>1, <3>2, GoStep
    <2>2. RowThere'
        BY <1>1, <1>6, <2>1, FetchLeaves DEF Alone, RowThere
    <2>3. m_nNextMessageID' \in Nat
        BY <1>2, <2>1
    <2> QED
        BY <1>1, <1>6, <2>1, <2>2, <2>3, FetchLeaves, RowsKept, PartsNext DEF Alone, TypeParts
<1>7. CASE PushRow(f)
    <2> DEFINE row == [mID |-> fetch[f].mID, text |-> fetch[f].text]
    <2>1. Go(f, "match") /\ m_vDisplay' = Append(m_vDisplay, row)
        BY <1>1, <1>7, PointStep
    <2>2. "match" \in FetchPoints
        BY DEF FetchPoints
    <2>3. Alone(f) /\ fetch'[f].pc = "match"
        BY <1>1, <2>1, <2>2, GoStep
    <2>4. row \in Rows
        BY <1>2 DEF Rows
    <2> HIDE DEF row
    <2>5. /\ m_vDisplay' \in Seq(Rows) /\ Len(m_vDisplay') = Len(m_vDisplay) + 1
          /\ m_vDisplay' # <<>>
        BY <1>3, <2>1, <2>4
    <2>6. m_vFiltered' = m_vFiltered
        BY <1>7, FetchLeaves
    <2>7. RowsOK'
        BY <1>3, <2>5, <2>6, MoreRows DEF RowsOK
    <2>8. RowThere'
        BY <2>5 DEF RowThere
    <2> QED
        BY <1>1, <1>7, <2>3, <2>7, <2>8, FetchLeaves, PartsNext DEF Alone, TypeParts
<1>8. CASE Match(f)
    <2>1. Alone(f) /\ fetch[f].pc = "match"
        BY <1>1, <1>8, MatchStep
    <2>2. RowThere'
        BY <1>1, <1>8, <2>1, FetchLeaves DEF Alone, RowThere
    <2> QED
        BY <1>1, <1>8, <2>1, <2>2, FetchLeaves, RowsKept, PartsNext DEF Alone, TypeParts
<1>9. CASE AddMatch(f)
    <2>1. /\ fetch[f].pc = "add" /\ Go(f, "look")
          /\ m_vFiltered' = Append(m_vFiltered, Len(m_vDisplay))
        BY <1>1, <1>9, PointStep
    <2>2. "look" \in FetchPoints
        BY DEF FetchPoints
    <2>3. Alone(f) /\ fetch'[f].pc = "look"
        BY <1>1, <2>1, <2>2, GoStep
    <2>4. m_vDisplay # <<>> /\ m_vDisplay' = m_vDisplay
        BY <1>1, <1>9, <2>1, FetchLeaves DEF RowThere
    <2>5. Len(m_vDisplay) \in 1 .. Len(m_vDisplay)
        BY <1>3, <2>4
    <2>6. RowsOK'
        BY <1>3, <2>1, <2>4, <2>5 DEF RowsOK
    <2>7. RowThere'
        BY <1>1, <2>3, <2>4 DEF RowThere, Alone
    <2> QED
        BY <1>1, <1>9, <2>3, <2>6, <2>7, FetchLeaves, PartsNext DEF Alone, TypeParts
<1>10. CASE LookFiltered(f)
    <2>1. Alone(f) /\ fetch'[f].pc = "size"
        BY <1>1, <1>10, LookStep
    <2>2. RowThere'
        BY <1>1, <1>10, <2>1, FetchLeaves DEF Alone, RowThere
    <2> QED
        BY <1>1, <1>10, <2>1, <2>2, FetchLeaves, RowsKept, PartsNext DEF Alone, TypeParts
<1>11. CASE LookSize(f)
    <2>1. Alone(f) /\ fetch'[f].pc = "send"
        BY <1>1, <1>3, <1>11, SizeStep
    <2>2. RowThere'
        BY <1>1, <1>11, <2>1, FetchLeaves DEF Alone, RowThere
    <2> QED
        BY <1>1, <1>11, <2>1, <2>2, FetchLeaves, RowsKept, PartsNext DEF Alone, TypeParts
<1>12. CASE SetCount(f)
    <2>1. Go(f, "scroll") /\ list' = WithCount(list, fetch[f].tell)
        BY <1>1, <1>12, PointStep
    <2>2. "scroll" \in FetchPoints
        BY DEF FetchPoints
    <2>3. Alone(f) /\ fetch'[f].pc = "scroll"
        BY <1>1, <2>1, <2>2, GoStep
    <2>4. RowThere'
        BY <1>1, <1>12, <2>3, FetchLeaves DEF Alone, RowThere
    <2>5. list' \in Lists /\ list'.top <= LastTop(list'.count)
        BY <1>1, <1>2, <2>1, CountSet, TopStays
    <2> QED
        BY <1>1, <1>12, <2>3, <2>4, <2>5, FetchLeaves, RowsKept, PartsNext DEF Alone, TypeParts
<1>13. CASE Scroll(f)
    <2>1. Go(f, "idle") /\ list' = Scrolled(list)
        BY <1>1, <1>13, PointStep
    <2>2. "idle" \in FetchPoints
        BY DEF FetchPoints
    <2>3. Alone(f) /\ fetch'[f].pc = "idle"
        BY <1>1, <2>1, <2>2, GoStep
    <2>4. RowThere'
        BY <1>1, <1>13, <2>3, FetchLeaves DEF Alone, RowThere
    <2>5. list' \in Lists /\ list'.top <= LastTop(list'.count)
        BY <1>1, <2>1, ListScrolls, TopStays
    <2> QED
        BY <1>1, <1>13, <2>3, <2>4, <2>5, FetchLeaves, RowsKept, PartsNext DEF Alone, TypeParts
<1> QED
    BY <1>4, <1>5, <1>6, <1>7, <1>8, <1>9, <1>10, <1>11, <1>12, <1>13 DEF ParseOn

LEMMA WinKeepsType ==
    ASSUME DisplayInv,
           \/ \E p \in Patterns, regex \in BOOLEAN : Submit(p, regex)
           \/ \E regex \in BOOLEAN : Submit(Empty, regex)
           \/ SetFilter \/ UserActs
    PROVE  DisplayInv'
<1>1. /\ m_nNextMessageID \in Nat /\ RowsOK
      /\ m_keyword \in Patterns \cup {Empty} /\ m_bFilterRegex \in BOOLEAN
      /\ fetch \in Fetches
      /\ win \in [pc : WinPoints, index : Nat] /\ win.index >= 1
      /\ list \in Lists /\ list.top <= LastTop(list.count)
      /\ count \in Counts
      /\ RowThere
    BY Parts DEF TypeParts
<1>2. m_vDisplay \in Seq(Rows) /\ m_vFiltered \in Seq(1 .. Len(m_vDisplay))
    BY <1>1 DEF RowsOK
<1>3. ASSUME NEW p \in Patterns \cup {Empty}, NEW regex \in BOOLEAN, Submit(p, regex)
      PROVE  DisplayInv'
    <2>1. m_keyword' = p /\ m_bFilterRegex' = regex
        BY <1>3 DEF Submit
    <2>2. /\ m_nNextMessageID' = m_nNextMessageID /\ m_vDisplay' = m_vDisplay
          /\ m_vFiltered' = m_vFiltered /\ fetch' = fetch /\ list' = list
        BY <1>3 DEF Submit
    <2>3. win' \in [pc : WinPoints, index : Nat] /\ win'.index >= 1
        <3>1. win' = [win EXCEPT !.pc = "clear"]
            BY <1>3 DEF Submit
        <3> QED
            BY <1>1, <3>1 DEF WinPoints
    <2>4. count' \in Counts
        <3> DEFINE one == [count EXCEPT !.filters = @ + 1]
        <3>1. count.filters < MaxFilters /\ count' = [one EXCEPT !.touched = TRUE]
            BY <1>3, Zenon DEF Submit
        <3>2. one \in Counts
            BY <1>1, <3>1, DisplayBounds DEF Counts
        <3> HIDE DEF one
        <3> QED
            BY <3>1, <3>2 DEF Counts
    <2>5. RowsOK' /\ RowThere'
        BY <1>1, <2>2, RowsKept DEF RowThere
    <2> QED
        BY <1>1, <1>3, <2>1, <2>2, <2>3, <2>4, <2>5, PartsNext DEF TypeParts
<1>4. CASE Clear
    <2>1. /\ m_nNextMessageID' = m_nNextMessageID /\ m_vDisplay' = m_vDisplay
          /\ m_keyword' = m_keyword /\ m_bFilterRegex' = m_bFilterRegex
          /\ fetch' = fetch /\ list' = list /\ count' = count
        BY <1>4 DEF Clear, filterVars
    <2>2. win' \in [pc : WinPoints, index : Nat] /\ win'.index >= 1
        BY <1>4 DEF Clear, WinPoints
    <2>3. m_vFiltered' = <<>>
        BY <1>4 DEF Clear
    <2>4. RowsOK' /\ RowThere'
        BY <1>1, <1>2, <2>1, <2>3 DEF RowThere, RowsOK
    <2> QED
        BY <1>1, <2>1, <2>2, <2>4, PartsNext DEF TypeParts
<1>5. CASE Scan
    <2>1. /\ m_nNextMessageID' = m_nNextMessageID /\ m_vDisplay' = m_vDisplay
          /\ m_keyword' = m_keyword /\ m_bFilterRegex' = m_bFilterRegex
          /\ fetch' = fetch /\ list' = list /\ count' = count
        BY <1>5 DEF Scan, filterVars
    <2>2. CASE win.index <= Len(m_vDisplay)
        <3>1. /\ win' = [win EXCEPT !.index = @ + 1]
              /\ m_vFiltered' \in {m_vFiltered, Append(m_vFiltered, win.index)}
            BY <1>5, <2>2 DEF Scan
        <3>2. win' \in [pc : WinPoints, index : Nat] /\ win'.index >= 1
            BY <1>1, <3>1
        <3>3. win.index \in 1 .. Len(m_vDisplay)
            BY <1>1, <1>2, <2>2
        <3>4. RowsOK'
            BY <1>2, <2>1, <3>1, <3>3 DEF RowsOK
        <3>5. RowThere'
            BY <1>1, <2>1 DEF RowThere
        <3> QED
            BY <1>1, <2>1, <3>2, <3>4, <3>5, PartsNext DEF TypeParts
    <2>3. CASE ~(win.index <= Len(m_vDisplay))
        <3>1. win' = [win EXCEPT !.pc = "show"] /\ m_vFiltered' = m_vFiltered
            BY <1>5, <2>3 DEF Scan
        <3>2. win' \in [pc : WinPoints, index : Nat] /\ win'.index >= 1
            BY <1>1, <3>1 DEF WinPoints
        <3>3. RowsOK' /\ RowThere'
            BY <1>1, <2>1, <3>1, RowsKept DEF RowThere
        <3> QED
            BY <1>1, <2>1, <3>2, <3>3, PartsNext DEF TypeParts
    <2> QED
        BY <2>2, <2>3
<1>6. CASE Show
    <2> DEFINE n == Len(IF m_keyword = Empty THEN m_vDisplay ELSE m_vFiltered)
    <2>1. /\ m_nNextMessageID' = m_nNextMessageID /\ m_vDisplay' = m_vDisplay
          /\ m_vFiltered' = m_vFiltered
          /\ m_keyword' = m_keyword /\ m_bFilterRegex' = m_bFilterRegex
          /\ fetch' = fetch /\ count' = count
        BY <1>6 DEF Show, filterVars
    <2>2. /\ list' = Scrolled(WithCount(list, n)) /\ win' = [win EXCEPT !.pc = "idle"]
        BY <1>6, Zenon DEF Show
    <2>3. n \in Nat
        BY <1>2
    <2> HIDE DEF n
    <2>4. WithCount(list, n) \in Lists
          /\ WithCount(list, n).top <= LastTop(WithCount(list, n).count)
        BY <1>1, <2>3, CountSet, TopStays
    <2>5. list' \in Lists /\ list'.top <= LastTop(list'.count)
        BY <2>2, <2>4, ListScrolls, TopStays
    <2>6. win' \in [pc : WinPoints, index : Nat] /\ win'.index >= 1
        BY <1>1, <2>2 DEF WinPoints
    <2>7. RowsOK' /\ RowThere'
        BY <1>1, <2>1, RowsKept DEF RowThere
    <2> QED
        BY <1>1, <2>1, <2>5, <2>6, <2>7, PartsNext DEF TypeParts
<1>7. CASE UserActs
    <2>1. /\ m_nNextMessageID' = m_nNextMessageID /\ m_vDisplay' = m_vDisplay
          /\ m_vFiltered' = m_vFiltered
          /\ m_keyword' = m_keyword /\ m_bFilterRegex' = m_bFilterRegex
          /\ fetch' = fetch /\ win' = win
        BY <1>7 DEF UserActs, filterVars
    <2>2. PICK t \in 0 .. LastTop(list.count), s \in BOOLEAN :
              list' = [list EXCEPT !.top = t, !.selected = s]
        BY <1>7, Zenon DEF UserActs
    <2> DEFINE one == [list EXCEPT !.top = t]
    <2>3. LastTop(list.count) \in Nat
        BY <1>1, LastTopNat DEF Lists
    <2>4. one \in Lists /\ one.top = t /\ one.count = list.count
        BY <1>1, <2>3 DEF Lists
    <2>5. list' = [one EXCEPT !.selected = s]
        BY <2>2, Zenon
    <2> HIDE DEF one
    <2>6. list' \in Lists /\ list'.top = t /\ list'.count = list.count
        BY <2>4, <2>5 DEF Lists
    <2>7. list'.top <= LastTop(list'.count)
        BY <2>3, <2>6
    <2>8. count' \in Counts
        <3>1. count' = [count EXCEPT !.touched = TRUE]
            BY <1>7 DEF UserActs
        <3> QED
            BY <1>1, <3>1 DEF Counts
    <2>9. RowsOK' /\ RowThere'
        BY <1>1, <2>1, RowsKept DEF RowThere
    <2> QED
        BY <1>1, <2>1, <2>6, <2>7, <2>8, <2>9, PartsNext DEF TypeParts
<1> QED
    BY <1>3, <1>4, <1>5, <1>6, <1>7 DEF SetFilter

LEMMA DisplayStep == DisplayInv /\ [Next]_vars => DisplayInv'
<1> SUFFICES ASSUME DisplayInv, [Next]_vars PROVE DisplayInv'
    OBVIOUS
<1>1. CASE Next
    BY <1>1, FetchKeepsType, WinKeepsType, Zenon DEF Next
<1>2. CASE UNCHANGED vars
    <2>1. /\ m_nNextMessageID' = m_nNextMessageID /\ m_vDisplay' = m_vDisplay
          /\ m_vFiltered' = m_vFiltered /\ m_keyword' = m_keyword
          /\ m_bFilterRegex' = m_bFilterRegex /\ fetch' = fetch /\ win' = win
          /\ list' = list /\ count' = count
        BY <1>2 DEF vars, filterVars
    <2>2. TypeParts
        BY Parts
    <2>3. RowsOK' /\ RowThere'
        BY <2>1, <2>2, RowsKept DEF RowThere, TypeParts
    <2> QED
        BY <2>1, <2>2, <2>3, PartsNext DEF TypeParts
<1> QED
    BY <1>1, <1>2

LEMMA DisplayAlways == Safety => []DisplayInv
BY InitDisplay, DisplayStep, PTL DEF Safety

(* The rows, the numbers of the matches, the threads and the list have      *)
(* their types; a number among the matches is that of a row, however many   *)
(* threads add rows.                                                        *)
THEOREM DisplayTypes == Safety => []DisplayTypeOK
<1>1. DisplayInv => DisplayTypeOK
    BY DEF DisplayInv
<1> QED
    BY <1>1, DisplayAlways, PTL

-----------------------------------------------------------------------------
(* The one fetch thread: the ids. *)

LEMMA OneThread ==
    ASSUME NEW f, Fetchers = {f}, [Next]_vars
    PROVE  \/ Parse(f) \/ LoadID(f) \/ StoreID(f) \/ PushRow(f) \/ Match(f) \/ AddMatch(f)
           \/ LookFiltered(f) \/ LookSize(f) \/ SetCount(f) \/ Scroll(f)
           \/ \E p \in Patterns \cup {Empty}, regex \in BOOLEAN : Submit(p, regex)
           \/ Clear \/ Scan \/ Show \/ UserActs
           \/ UNCHANGED vars
<1>1. CASE \E g \in Fetchers : Parse(g) \/ ParseOn(g) \/ SetCount(g) \/ Scroll(g)
    BY <1>1 DEF ParseOn
<1>2. CASE \/ \E p \in Patterns, regex \in BOOLEAN : Submit(p, regex)
           \/ \E regex \in BOOLEAN : Submit(Empty, regex)
    BY <1>2
<1>3. CASE SetFilter \/ UserActs \/ UNCHANGED vars
    BY <1>3 DEF SetFilter
<1> QED
    BY <1>1, <1>2, <1>3 DEF Next

(* The window's thread gives out no id and adds no row.                     *)
LEMMA WinLeaves ==
    ASSUME \/ \E p \in Patterns \cup {Empty}, regex \in BOOLEAN : Submit(p, regex)
           \/ Clear \/ Scan \/ Show \/ UserActs
           \/ UNCHANGED vars
    PROVE  m_nNextMessageID' = m_nNextMessageID /\ m_vDisplay' = m_vDisplay /\ fetch' = fetch
BY DEF Submit, Clear, Scan, Show, UserActs, vars

LEMMA IdStep ==
    ASSUME NEW f, Fetchers = {f}, DisplayInv, Numbered(f), IdsIncrease, [Next]_vars
    PROVE  Numbered(f)' /\ IdsIncrease'
<1> f \in Fetchers
    OBVIOUS
<1>1. /\ m_nNextMessageID \in Nat /\ RowsOK /\ fetch \in Fetches
    BY Parts DEF TypeParts
<1>2. fetch[f] \in [pc : FetchPoints, mID : Nat, reg : Nat, text : Texts,
                    display : BOOLEAN, all : BOOLEAN, tell : Nat]
    BY <1>1 DEF Fetches
<1>3. m_vDisplay \in Seq(Rows) /\ m_vFiltered \in Seq(1 .. Len(m_vDisplay))
    BY <1>1 DEF RowsOK
<1>4. \A r \in DOMAIN m_vDisplay : m_vDisplay[r].mID \in Nat
    <2>1. \A row \in Rows : row.mID \in Nat
        BY DEF Rows
    <2> QED
        BY <1>3, <2>1
<1>5. CASE Parse(f)
    <2>1. fetch'[f].pc \in {"idle", "load"} /\ fetch'[f].mID = m_nNextMessageID
        BY <1>1, <1>5, ParseStep
    <2>2. m_nNextMessageID' = m_nNextMessageID /\ m_vDisplay' = m_vDisplay
        BY <1>5, FetchLeaves
    <2> QED
        BY <2>1, <2>2 DEF Numbered, IdsIncrease
<1>6. CASE LoadID(f)
    <2>1. /\ fetch[f].pc = "load" /\ fetch'[f].pc = "store"
          /\ fetch'[f].mID = fetch[f].mID /\ fetch'[f].reg = m_nNextMessageID
        BY <1>1, <1>6, LoadStep
    <2>2. m_nNextMessageID' = m_nNextMessageID /\ m_vDisplay' = m_vDisplay
        BY <1>6, FetchLeaves
    <2> QED
        BY <2>1, <2>2 DEF Numbered, IdsIncrease
<1>7. CASE StoreID(f)
    <2>1. /\ fetch[f].pc = "store" /\ Go(f, fetch'[f].pc) /\ fetch'[f].pc \in {"push", "idle"}
          /\ m_nNextMessageID' = fetch[f].reg + 1
        BY <1>1, <1>7, PointStep
    <2>2. fetch'[f].pc \in FetchPoints
        BY <2>1 DEF FetchPoints
    <2>3. fetch'[f].mID = fetch[f].mID
        BY <1>1, <2>1, <2>2, GoStep
    <2>4. m_vDisplay' = m_vDisplay
        BY <1>7, FetchLeaves
    <2>5. fetch[f].mID = m_nNextMessageID /\ m_nNextMessageID' = m_nNextMessageID + 1
        BY <2>1 DEF Numbered
    <2>6. \A r \in DOMAIN m_vDisplay : /\ m_vDisplay[r].mID < fetch[f].mID
                                       /\ m_vDisplay[r].mID < m_nNextMessageID + 1
        BY <1>1, <1>4, <2>5 DEF IdsIncrease
    <2> QED
        BY <2>1, <2>3, <2>4, <2>5, <2>6 DEF Numbered, IdsIncrease
<1>8. CASE PushRow(f)
    <2> DEFINE row == [mID |-> fetch[f].mID, text |-> fetch[f].text]
    <2>1. /\ fetch[f].pc = "push" /\ Go(f, "match") /\ m_vDisplay' = Append(m_vDisplay, row)
        BY <1>1, <1>8, PointStep
    <2>2. "match" \in FetchPoints
        BY DEF FetchPoints
    <2>3. fetch'[f].pc = "match" /\ m_nNextMessageID' = m_nNextMessageID
        BY <1>1, <1>8, <2>1, <2>2, GoStep, FetchLeaves
    <2>4. /\ fetch[f].mID + 1 = m_nNextMessageID
          /\ \A r \in DOMAIN m_vDisplay : m_vDisplay[r].mID < fetch[f].mID
        BY <2>1 DEF Numbered
    <2>5. row.mID = fetch[f].mID /\ row \in Rows
        BY <1>2 DEF Rows
    <2> HIDE DEF row
    <2>6. /\ Len(m_vDisplay') = Len(m_vDisplay) + 1
          /\ \A r \in DOMAIN m_vDisplay : m_vDisplay'[r] = m_vDisplay[r]
          /\ m_vDisplay'[Len(m_vDisplay) + 1] = row
          /\ DOMAIN m_vDisplay = 1 .. Len(m_vDisplay)
          /\ DOMAIN m_vDisplay' = 1 .. Len(m_vDisplay) + 1
        BY <1>3, <2>1, <2>5
    <2>7. ASSUME NEW r \in 1 .. Len(m_vDisplay') - 1
          PROVE  m_vDisplay'[r].mID < m_vDisplay'[r + 1].mID
        <3>1. r \in DOMAIN m_vDisplay /\ r \in 1 .. Len(m_vDisplay)
            BY <1>3, <2>6
        <3>2. CASE r = Len(m_vDisplay)
            BY <2>4, <2>5, <2>6, <3>1, <3>2
        <3>3. CASE r # Len(m_vDisplay)
            <4>1. r \in 1 .. Len(m_vDisplay) - 1 /\ r + 1 \in DOMAIN m_vDisplay
                BY <1>3, <2>6, <3>1, <3>3
            <4> QED
                BY <2>6, <3>1, <4>1 DEF IdsIncrease
        <3> QED
            BY <3>2, <3>3
    <2>8. ASSUME NEW r \in DOMAIN m_vDisplay'
          PROVE  m_vDisplay'[r].mID < m_nNextMessageID'
        <3>1. CASE r \in DOMAIN m_vDisplay
            BY <1>1, <1>4, <2>3, <2>6, <3>1 DEF IdsIncrease
        <3>2. CASE r = Len(m_vDisplay) + 1
            BY <1>1, <1>2, <2>3, <2>4, <2>5, <2>6, <3>2
        <3>3. r \in DOMAIN m_vDisplay \/ r = Len(m_vDisplay) + 1
            BY <1>3, <2>6
        <3> QED
            BY <3>1, <3>2, <3>3
    <2>9. IdsIncrease'
        BY <2>7, <2>8 DEF IdsIncrease
    <2> QED
        BY <2>3, <2>9 DEF Numbered
<1>9. CASE Match(f) \/ AddMatch(f) \/ LookFiltered(f) \/ LookSize(f) \/ SetCount(f) \/ Scroll(f)
    <2>1. m_nNextMessageID' = m_nNextMessageID /\ m_vDisplay' = m_vDisplay
        BY <1>9, FetchLeaves
    <2>2. {"look", "scroll", "idle"} \subseteq FetchPoints
        BY DEF FetchPoints
    <2>3. fetch'[f].pc \in {"add", "look", "size", "send", "scroll", "idle"}
        BY <1>1, <1>3, <1>9, <2>2, MatchStep, LookStep, SizeStep, PointStep, GoStep
    <2> QED
        BY <2>1, <2>3 DEF Numbered, IdsIncrease
<1>10. CASE \/ \E p \in Patterns \cup {Empty}, regex \in BOOLEAN : Submit(p, regex)
            \/ Clear \/ Scan \/ Show \/ UserActs \/ UNCHANGED vars
    BY <1>10, WinLeaves DEF Numbered, IdsIncrease
<1> QED
    BY <1>5, <1>6, <1>7, <1>8, <1>9, <1>10, OneThread

(* With one fetch thread, every row has a greater id than the one before,   *)
(* and the next id is greater still: no two rows share one, although the    *)
(* count is read and written in two steps and messages that are not         *)
(* displayed take ids too.                                                  *)
THEOREM IdsOrdered ==
    ASSUME NEW f, Fetchers = {f}
    PROVE  Safety => []IdsIncrease
<1>1. Init => Numbered(f) /\ IdsIncrease
    BY DEF Init, Numbered, IdsIncrease
<1>2. DisplayInv /\ Numbered(f) /\ IdsIncrease /\ [Next]_vars => (Numbered(f) /\ IdsIncrease)'
    BY IdStep
<1> QED
    BY <1>1, <1>2, DisplayAlways, PTL DEF Safety

-----------------------------------------------------------------------------
(* The one fetch thread: the matches. *)

LEMMA Appended ==
    ASSUME NEW S, NEW s \in Seq(S), NEW e \in S
    PROVE  /\ Append(s, e) \in Seq(S) /\ Len(Append(s, e)) = Len(s) + 1
           /\ \A r \in 1 .. Len(s) : Append(s, e)[r] = s[r]
           /\ Append(s, e)[Len(s) + 1] = e
           /\ ToSet(Append(s, e)) = ToSet(s) \cup {e}
<1>1. /\ Append(s, e) \in Seq(S) /\ Len(Append(s, e)) = Len(s) + 1
      /\ \A r \in 1 .. Len(s) : Append(s, e)[r] = s[r]
      /\ Append(s, e)[Len(s) + 1] = e
      /\ DOMAIN Append(s, e) = 1 .. Len(s) + 1 /\ DOMAIN s = 1 .. Len(s)
    OBVIOUS
<1> DEFINE t == Append(s, e)
<1> HIDE DEF t
<1>2. 1 .. Len(s) + 1 = 1 .. Len(s) \cup {Len(s) + 1}
    OBVIOUS
<1>3. {t[i] : i \in DOMAIN t} = {s[i] : i \in DOMAIN s} \cup {e}
    BY <1>1, <1>2 DEF t
<1> QED
    BY <1>1, <1>3 DEF t, ToSet

(* A matching row that the filter does not owe any more.                    *)
Kept(f, r) == \/ r \in ToSet(m_vFiltered)
              \/ Pending(f, r)
              \/ win.pc = "scan" /\ r >= win.index

Plain == win.pc # "clear" /\ m_keyword # Empty /\ ~m_bFilterRegex

ScannedRows(f) == Plain => \A r \in DOMAIN m_vDisplay :
                              m_vDisplay[r].text \in find[m_keyword] => Kept(f, r)
NewestHeld(f) == fetch[f].pc = "match" => m_vDisplay[Len(m_vDisplay)].text = fetch[f].text

LEMMA ScanStep ==
    ASSUME NEW f, Fetchers = {f}, DisplayInv, Scanned(f), [Next]_vars
    PROVE  Scanned(f)'
<1> f \in Fetchers
    OBVIOUS
<1>1. /\ RowsOK /\ fetch \in Fetches /\ win.index >= 1
      /\ win \in [pc : WinPoints, index : Nat] /\ RowThere
    BY Parts DEF TypeParts
<1>2. fetch[f] \in [pc : FetchPoints, mID : Nat, reg : Nat, text : Texts,
                    display : BOOLEAN, all : BOOLEAN, tell : Nat]
    BY <1>1 DEF Fetches
<1>3. m_vDisplay \in Seq(Rows) /\ m_vFiltered \in Seq(1 .. Len(m_vDisplay))
    BY <1>1 DEF RowsOK
<1>4. NewestHeld(f) /\ ScannedRows(f)
    BY Zenon DEF Scanned, NewestHeld, ScannedRows, Kept, Plain
<1>5. SUFFICES NewestHeld(f)' /\ ScannedRows(f)'
    BY Zenon DEF Scanned, NewestHeld, ScannedRows, Kept, Plain
<1>6. CASE Parse(f) \/ LoadID(f) \/ StoreID(f) \/ LookFiltered(f) \/ LookSize(f)
              \/ SetCount(f) \/ Scroll(f)
    <2>1. {"push", "look", "scroll", "idle"} \subseteq FetchPoints
        BY DEF FetchPoints
    <2>2. fetch'[f].pc \notin {"match", "add"} /\ fetch[f].pc \notin {"match", "add"}
        <3>1. CASE Parse(f) \/ LoadID(f) \/ LookFiltered(f) \/ LookSize(f)
            <4>1. m_nNextMessageID \in Nat
                BY Parts DEF TypeParts
            <4>2. Parse(f) => fetch[f].pc = "idle" /\ fetch'[f].pc \in {"idle", "load"}
                BY <1>1, <4>1, ParseStep
            <4>3. LoadID(f) => fetch[f].pc = "load" /\ fetch'[f].pc = "store"
                BY <1>1, <4>1, LoadStep
            <4>4. LookFiltered(f) => fetch[f].pc = "look" /\ fetch'[f].pc = "size"
                BY <1>1, LookStep
            <4>5. LookSize(f) => fetch[f].pc = "size" /\ fetch'[f].pc = "send"
                BY <1>1, <1>3, SizeStep
            <4> QED
                BY <3>1, <4>2, <4>3, <4>4, <4>5
        <3>2. CASE StoreID(f)
            <4>1. fetch[f].pc = "store" /\ fetch'[f].pc \in {"push", "idle"}
                BY <1>1, <3>2, PointStep
            <4> QED
                BY <1>1, <2>1, <4>1
        <3>3. CASE SetCount(f)
            <4>1. fetch[f].pc = "send" /\ Go(f, "scroll")
                BY <1>1, <3>3, PointStep
            <4> QED
                BY <1>1, <2>1, <4>1, GoStep
        <3>4. CASE Scroll(f)
            <4>1. fetch[f].pc = "scroll" /\ Go(f, "idle")
                BY <1>1, <3>4, PointStep
            <4> QED
                BY <1>1, <2>1, <4>1, GoStep
        <3> QED
            BY <1>6, <3>1, <3>2, <3>3, <3>4
    <2>3. /\ m_vDisplay' = m_vDisplay /\ m_vFiltered' = m_vFiltered /\ win' = win
          /\ m_keyword' = m_keyword /\ m_bFilterRegex' = m_bFilterRegex
        BY <1>6, FetchLeaves
    <2> QED
        BY <1>4, <2>2, <2>3 DEF NewestHeld, ScannedRows, Kept, Plain, Pending
<1>7. CASE PushRow(f)
    <2> DEFINE row == [mID |-> fetch[f].mID, text |-> fetch[f].text]
    <2>1. /\ fetch[f].pc = "push" /\ Go(f, "match") /\ m_vDisplay' = Append(m_vDisplay, row)
        BY <1>1, <1>7, PointStep
    <2>2. "match" \in FetchPoints
        BY DEF FetchPoints
    <2>3. fetch'[f].pc = "match" /\ fetch'[f].text = fetch[f].text
        BY <1>1, <2>1, <2>2, GoStep
    <2>4. row \in Rows /\ row.text = fetch[f].text
        BY <1>2 DEF Rows
    <2> HIDE DEF row
    <2>5. /\ m_vDisplay' \in Seq(Rows) /\ Len(m_vDisplay') = Len(m_vDisplay) + 1
          /\ \A r \in 1 .. Len(m_vDisplay) : m_vDisplay'[r] = m_vDisplay[r]
          /\ m_vDisplay'[Len(m_vDisplay) + 1] = row
        BY <1>3, <2>1, <2>4, Appended
    <2>6. /\ m_vFiltered' = m_vFiltered /\ win' = win
          /\ m_keyword' = m_keyword /\ m_bFilterRegex' = m_bFilterRegex
        BY <1>7, FetchLeaves
    <2>7. NewestHeld(f)'
        BY <2>3, <2>4, <2>5 DEF NewestHeld
    <2>8. ASSUME Plain', NEW r \in DOMAIN m_vDisplay', m_vDisplay'[r].text \in find[m_keyword]
          PROVE  Kept(f, r)'
        <3>1. r \in 1 .. Len(m_vDisplay) \/ r = Len(m_vDisplay')
            BY <1>3, <2>5
        <3>2. CASE r \in 1 .. Len(m_vDisplay)
            <4>1. m_vDisplay[r].text \in find[m_keyword] /\ r \in DOMAIN m_vDisplay /\ Plain
                BY <1>3, <2>5, <2>6, <2>8, <3>2 DEF Plain
            <4>2. Kept(f, r) /\ ~Pending(f, r)
                BY <1>4, <2>1, <4>1 DEF ScannedRows, Pending
            <4> QED
                BY <2>6, <4>2 DEF Kept
        <3>3. CASE r = Len(m_vDisplay')
            BY <2>3, <3>3 DEF Kept, Pending
        <3> QED
            BY <3>1, <3>2, <3>3
    <2> QED
        BY <2>6, <2>7, <2>8 DEF ScannedRows
<1>8. CASE Match(f)
    <2>1. /\ fetch[f].pc = "match" /\ fetch'[f].pc \in {"add", "look"}
          /\ fetch'[f].pc = "look" <=>
                 ~(m_keyword # Empty /\ fetch[f].text \in find[m_keyword])
        BY <1>1, <1>8, MatchStep
    <2>2. /\ m_vDisplay' = m_vDisplay /\ m_vFiltered' = m_vFiltered /\ win' = win
          /\ m_keyword' = m_keyword /\ m_bFilterRegex' = m_bFilterRegex
        BY <1>8, FetchLeaves
    <2>3. NewestHeld(f)'
        BY <2>1 DEF NewestHeld
    <2>4. ASSUME Plain, NEW r \in DOMAIN m_vDisplay, m_vDisplay[r].text \in find[m_keyword]
          PROVE  Kept(f, r)'
        <3>1. Kept(f, r)
            BY <1>4, <2>4 DEF ScannedRows
        <3>2. CASE fetch'[f].pc = "add"
            BY <2>2, <3>1, <3>2 DEF Kept, Pending
        <3>3. CASE fetch'[f].pc = "look"
            <4>1. r # Len(m_vDisplay)
                BY <1>4, <2>1, <2>4, <3>3 DEF NewestHeld, Plain
            <4> QED
                BY <2>2, <3>1, <4>1 DEF Kept, Pending
        <3> QED
            BY <2>1, <3>2, <3>3
    <2>5. Plain' = Plain
        BY <2>2 DEF Plain
    <2> QED
        BY <2>2, <2>3, <2>4, <2>5 DEF ScannedRows
<1>9. CASE AddMatch(f)
    <2>1. /\ fetch[f].pc = "add" /\ Go(f, "look")
          /\ m_vFiltered' = Append(m_vFiltered, Len(m_vDisplay))
        BY <1>1, <1>9, PointStep
    <2>2. "look" \in FetchPoints
        BY DEF FetchPoints
    <2>3. fetch'[f].pc = "look"
        BY <1>1, <2>1, <2>2, GoStep
    <2>4. /\ m_vDisplay' = m_vDisplay /\ win' = win
          /\ m_keyword' = m_keyword /\ m_bFilterRegex' = m_bFilterRegex
        BY <1>9, FetchLeaves
    <2>5. Len(m_vDisplay) \in 1 .. Len(m_vDisplay)
        BY <1>1, <1>3, <2>1 DEF RowThere
    <2>6. ToSet(m_vFiltered') = ToSet(m_vFiltered) \cup {Len(m_vDisplay)}
        BY <1>3, <2>1, <2>5, Appended
    <2>7. \A r : Kept(f, r) => Kept(f, r)'
        BY <2>4, <2>6 DEF Kept, Pending
    <2> QED
        BY <1>4, <2>3, <2>4, <2>7 DEF NewestHeld, ScannedRows, Plain
<1>10. CASE \E p \in Patterns \cup {Empty}, regex \in BOOLEAN : Submit(p, regex)
    <2>1. m_vDisplay' = m_vDisplay /\ fetch' = fetch
        BY <1>10, WinLeaves
    <2>2. win'.pc = "clear"
        <3>1. win' = [win EXCEPT !.pc = "clear"]
            BY <1>10 DEF Submit
        <3> QED
            BY <1>1, <3>1
    <2> QED
        BY <1>4, <2>1, <2>2 DEF NewestHeld, ScannedRows, Plain
<1>11. CASE Clear
    <2>1. m_vDisplay' = m_vDisplay /\ fetch' = fetch
        BY <1>11, WinLeaves
    <2>2. /\ win' = [pc |-> IF m_keyword = Empty THEN "show" ELSE "scan", index |-> 1]
          /\ m_keyword' = m_keyword
        BY <1>11 DEF Clear, filterVars
    <2>3. Plain' => win'.pc = "scan" /\ win'.index = 1
        BY <2>2 DEF Plain
    <2>4. \A r \in DOMAIN m_vDisplay : r >= 1
        BY <1>3
    <2> QED
        BY <1>4, <2>1, <2>3, <2>4 DEF NewestHeld, ScannedRows, Kept
<1>12. CASE Scan
    <2>1. m_vDisplay' = m_vDisplay /\ fetch' = fetch
        BY <1>12, WinLeaves
    <2>2. m_keyword' = m_keyword /\ m_bFilterRegex' = m_bFilterRegex /\ win.pc = "scan"
        BY <1>12 DEF Scan, filterVars
    <2>3. CASE win.index <= Len(m_vDisplay)
        <3>1. /\ win' = [win EXCEPT !.index = @ + 1]
              /\ m_vFiltered' = IF Matches(m_vDisplay[win.index].text)
                                THEN Append(m_vFiltered, win.index) ELSE m_vFiltered
            BY <1>12, <2>3 DEF Scan
        <3>2. win'.pc = "scan" /\ win'.index = win.index + 1 /\ win.index \in Nat
            BY <1>1, <2>2, <3>1
        <3>3. win.index \in 1 .. Len(m_vDisplay)
            BY <1>1, <1>3, <2>3, <3>2
        <3>4. /\ ToSet(m_vFiltered) \subseteq ToSet(m_vFiltered')
              /\ Matches(m_vDisplay[win.index].text) => win.index \in ToSet(m_vFiltered')
            BY <1>3, <3>1, <3>3, Appended
        <3>5. ASSUME Plain, NEW r \in DOMAIN m_vDisplay,
                     m_vDisplay[r].text \in find[m_keyword]
              PROVE  Kept(f, r)'
            <4>1. Kept(f, r) /\ r \in Nat
                BY <1>3, <1>4, <3>5 DEF ScannedRows
            <4>2. CASE r = win.index
                BY <3>4, <3>5, <4>2 DEF Matches, Plain, Kept
            <4>3. CASE r # win.index
                <5>1. r >= win.index => r >= win.index + 1
                    BY <3>2, <4>1, <4>3
                <5> QED
                    BY <2>1, <3>2, <3>4, <4>1, <5>1 DEF Kept, Pending
            <4> QED
                BY <4>2, <4>3
        <3>6. Plain' => Plain
            BY <2>2 DEF Plain
        <3> QED
            BY <1>4, <2>1, <2>2, <3>5, <3>6 DEF NewestHeld, ScannedRows
    <2>4. CASE ~(win.index <= Len(m_vDisplay))
        <3>1. m_vFiltered' = m_vFiltered
            BY <1>12, <2>4 DEF Scan
        <3>2. \A r \in DOMAIN m_vDisplay : ~(r >= win.index)
            BY <1>1, <1>3, <2>4
        <3>3. \A r \in DOMAIN m_vDisplay : Kept(f, r) => Kept(f, r)'
            BY <2>1, <3>1, <3>2 DEF Kept, Pending
        <3>4. Plain' => Plain
            BY <2>2 DEF Plain
        <3> QED
            BY <1>4, <2>1, <2>2, <3>3, <3>4 DEF NewestHeld, ScannedRows
    <2> QED
        BY <2>3, <2>4
<1>13. CASE Show \/ UserActs \/ UNCHANGED vars
    <2>1. m_vDisplay' = m_vDisplay /\ fetch' = fetch
        BY <1>13, WinLeaves
    <2>2. m_keyword' = m_keyword /\ m_bFilterRegex' = m_bFilterRegex /\ m_vFiltered' = m_vFiltered
        BY <1>13 DEF Show, UserActs, vars, filterVars
    <2>3. win.pc = "show" \/ win' = win
        BY <1>13 DEF Show, UserActs, vars
    <2>4. Plain' => Plain
        BY <2>2, <2>3 DEF Plain
    <2> QED
        BY <1>4, <2>1, <2>2, <2>3, <2>4 DEF NewestHeld, ScannedRows, Kept, Pending
<1> QED
    BY <1>6, <1>7, <1>8, <1>9, <1>10, <1>11, <1>12, <1>13, OneThread

(* With one fetch thread, a filter that is a plain string misses no row     *)
(* that was added before setFilter, during it or after: the row is among    *)
(* the matches, or the thread has it in hand.                               *)
THEOREM MatchesComplete ==
    ASSUME NEW f, Fetchers = {f}
    PROVE  Safety => []NoMatchMissed
<1>1. Init => Scanned(f)
    BY NotEmpty DEF Init, Scanned
<1>2. DisplayInv /\ Scanned(f) /\ [Next]_vars => Scanned(f)'
    BY ScanStep
<1>3. Scanned(f) => NoMatchMissed
    BY DEF Scanned, NoMatchMissed
<1> QED
    BY <1>1, <1>2, <1>3, DisplayAlways, PTL DEF Safety

-----------------------------------------------------------------------------
(* The one fetch thread: the list that nobody touches. *)

(* One more row than before, and the list at its end: it was not locked.    *)
LEMMA ScrollsOn ==
    ASSUME NEW l \in Lists, ~l.selected, l.count > 0, l.top = LastTop(l.count - 1)
    PROVE  Scrolled(l).top = LastTop(l.count)
<1>1. Page \in Nat \ {0} /\ l.count \in Nat /\ l.top \in Nat
    BY DisplayBounds DEF Lists
<1>2. CASE l.count > Page
    <2>1. l.top + Page + 1 = l.count
        BY <1>1, <1>2 DEF LastTop
    <2>2. ~scrollLocked(l)
        BY <2>1 DEF scrollLocked
    <2> QED
        BY <2>2, ListScrolls
<1>3. CASE ~(l.count > Page)
    <2>1. l.top = LastTop(l.count)
        BY <1>1, <1>3 DEF LastTop
    <2> QED
        BY <2>1, ListScrolls
<1> QED
    BY <1>2, <1>3

(* A count that grows leaves the top row where it is.                       *)
LEMMA CountsOn ==
    ASSUME NEW l \in Lists, l.top = LastTop(l.count)
    PROVE  /\ WithCount(l, l.count + 1).count = l.count + 1
           /\ WithCount(l, l.count + 1).top = l.top
           /\ WithCount(l, l.count + 1).selected = l.selected
<1>1. Page \in Nat \ {0} /\ l.count \in Nat /\ l.count + 1 \in Nat
    BY DisplayBounds DEF Lists
<1>2. LastTop(l.count) <= LastTop(l.count + 1)
    BY <1>1 DEF LastTop
<1>3. LastTop(l.count) \in Nat /\ LastTop(l.count + 1) \in Nat
    BY <1>1, LastTopNat
<1>4. ~(l.top > LastTop(l.count + 1))
    BY <1>2, <1>3
<1> QED
    BY <1>1, <1>4, CountSet

(* Nothing of the window changes.                                           *)
Undisturbed ==
    win.pc = "idle" /\ m_keyword = Empty /\ m_vFiltered = <<>> /\ ~list.selected

LEMMA TouchStep ==
    ASSUME NEW f, Fetchers = {f}, DisplayInv, Untouched(f), [Next]_vars
    PROVE  Untouched(f)'
<1> f \in Fetchers
    OBVIOUS
<1>1. RowsOK /\ fetch \in Fetches /\ list \in Lists /\ count \in Counts
      /\ m_nNextMessageID \in Nat
    BY Parts DEF TypeParts
<1>2. fetch[f] \in [pc : FetchPoints, mID : Nat, reg : Nat, text : Texts,
                    display : BOOLEAN, all : BOOLEAN, tell : Nat]
    BY <1>1 DEF Fetches
<1>3. m_vDisplay \in Seq(Rows) /\ m_vFiltered \in Seq(1 .. Len(m_vDisplay))
    BY <1>1 DEF RowsOK
<1>4. {"match", "look", "scroll", "idle"} \subseteq FetchPoints
    BY DEF FetchPoints
<1>5. SUFFICES ASSUME ~count'.touched PROVE Untouched(f)'
    BY DEF Untouched
<1>6. CASE Parse(f)
    <2>1. count'.touched = count.touched
        <3>1. count' = [count EXCEPT !.messages = @ + 1]
            BY <1>6, Zenon DEF Parse
        <3> QED
            BY <1>1, <3>1 DEF Counts
    <2>2. fetch[f].pc = "idle" /\ fetch'[f].pc \in {"idle", "load"}
        BY <1>1, <1>6, ParseStep
    <2>3. /\ m_vDisplay' = m_vDisplay /\ m_vFiltered' = m_vFiltered
          /\ m_keyword' = m_keyword /\ win' = win /\ list' = list
        BY <1>6, FetchLeaves
    <2> QED
        BY <1>5, <2>1, <2>2, <2>3 DEF Untouched
<1>7. CASE LoadID(f)
    <2>1. fetch[f].pc = "load" /\ fetch'[f].pc = "store"
        BY <1>1, <1>7, LoadStep
    <2>2. /\ m_vDisplay' = m_vDisplay /\ m_vFiltered' = m_vFiltered
          /\ m_keyword' = m_keyword /\ win' = win /\ list' = list /\ count' = count
        BY <1>7, FetchLeaves
    <2> QED
        BY <1>5, <2>1, <2>2 DEF Untouched
<1>8. CASE StoreID(f)
    <2>1. fetch[f].pc = "store" /\ fetch'[f].pc \in {"push", "idle"}
        BY <1>1, <1>8, PointStep
    <2>2. /\ m_vDisplay' = m_vDisplay /\ m_vFiltered' = m_vFiltered
          /\ m_keyword' = m_keyword /\ win' = win /\ list' = list /\ count' = count
        BY <1>8, FetchLeaves
    <2> QED
        BY <1>5, <2>1, <2>2 DEF Untouched
<1>9. CASE PushRow(f)
    <2> DEFINE row == [mID |-> fetch[f].mID, text |-> fetch[f].text]
    <2>1. /\ fetch[f].pc = "push" /\ Go(f, "match") /\ m_vDisplay' = Append(m_vDisplay, row)
        BY <1>1, <1>9, PointStep
    <2>2. fetch'[f].pc = "match"
        BY <1>1, <1>4, <2>1, GoStep
    <2>3. row \in Rows
        BY <1>2 DEF Rows
    <2> HIDE DEF row
    <2>4. Len(m_vDisplay') = Len(m_vDisplay) + 1
        BY <1>3, <2>1, <2>3
    <2>5. /\ m_vFiltered' = m_vFiltered
          /\ m_keyword' = m_keyword /\ win' = win /\ list' = list /\ count' = count
        BY <1>9, FetchLeaves
    <2> QED
        BY <1>5, <2>1, <2>2, <2>4, <2>5 DEF Untouched
<1>10. CASE Match(f)
    <2>1. /\ fetch[f].pc = "match" /\ fetch'[f].pc \in {"add", "look"}
          /\ fetch'[f].pc = "look" <=>
                 ~(m_keyword # Empty /\ fetch[f].text \in find[m_keyword])
        BY <1>1, <1>10, MatchStep
    <2>2. /\ m_vDisplay' = m_vDisplay /\ m_vFiltered' = m_vFiltered
          /\ m_keyword' = m_keyword /\ win' = win /\ list' = list /\ count' = count
        BY <1>10, FetchLeaves
    <2>3. fetch'[f].pc = "look"
        BY <1>5, <2>1, <2>2 DEF Untouched
    <2> QED
        BY <1>5, <2>1, <2>2, <2>3 DEF Untouched
<1>11. CASE AddMatch(f)
    <2>1. fetch[f].pc = "add"
        BY <1>1, <1>11, PointStep
    <2>2. count' = count
        BY <1>11, FetchLeaves
    <2> QED
        BY <1>5, <2>1, <2>2 DEF Untouched
<1>12. CASE LookFiltered(f)
    <2>1. /\ fetch[f].pc = "look" /\ fetch'[f].pc = "size"
          /\ m_vFiltered = <<>> => fetch'[f].all
        BY <1>1, <1>12, LookStep
    <2>2. /\ m_vDisplay' = m_vDisplay /\ m_vFiltered' = m_vFiltered
          /\ m_keyword' = m_keyword /\ win' = win /\ list' = list /\ count' = count
        BY <1>12, FetchLeaves
    <2> QED
        BY <1>5, <2>1, <2>2 DEF Untouched
<1>13. CASE LookSize(f)
    <2>1. /\ fetch[f].pc = "size" /\ fetch'[f].pc = "send"
          /\ fetch[f].all => fetch'[f].tell = Len(m_vDisplay)
        BY <1>1, <1>3, <1>13, SizeStep
    <2>2. /\ m_vDisplay' = m_vDisplay /\ m_vFiltered' = m_vFiltered
          /\ m_keyword' = m_keyword /\ win' = win /\ list' = list /\ count' = count
        BY <1>13, FetchLeaves
    <2> QED
        BY <1>5, <2>1, <2>2 DEF Untouched
<1>14. CASE SetCount(f)
    <2>1. /\ fetch[f].pc = "send" /\ Go(f, "scroll")
          /\ list' = WithCount(list, fetch[f].tell)
        BY <1>1, <1>14, PointStep
    <2>2. fetch'[f].pc = "scroll"
        BY <1>1, <1>4, <2>1, GoStep
    <2>3. /\ m_vDisplay' = m_vDisplay /\ m_vFiltered' = m_vFiltered
          /\ m_keyword' = m_keyword /\ win' = win /\ count' = count
        BY <1>14, FetchLeaves
    <2>4. /\ Undisturbed /\ fetch[f].tell = Len(m_vDisplay)
          /\ list.count + 1 = Len(m_vDisplay) /\ list.top = LastTop(list.count)
        BY <1>5, <2>1, <2>3 DEF Untouched, Undisturbed
    <2>5. /\ list'.count = list.count + 1 /\ list'.top = list.top
          /\ list'.selected = list.selected
        BY <1>1, <2>1, <2>4, CountsOn
    <2>6. list.count \in Nat
        BY <1>1 DEF Lists
    <2>7. list'.count > 0 /\ list'.count - 1 = list.count
        BY <2>5, <2>6
    <2>8. Undisturbed'
        BY <2>3, <2>4, <2>5 DEF Undisturbed
    <2> QED
        BY <2>2, <2>3, <2>4, <2>5, <2>7, <2>8 DEF Untouched, Undisturbed
<1>15. CASE Scroll(f)
    <2>1. fetch[f].pc = "scroll" /\ Go(f, "idle") /\ list' = Scrolled(list)
        BY <1>1, <1>15, PointStep
    <2>2. fetch'[f].pc = "idle"
        BY <1>1, <1>4, <2>1, GoStep
    <2>3. /\ m_vDisplay' = m_vDisplay /\ m_vFiltered' = m_vFiltered
          /\ m_keyword' = m_keyword /\ win' = win /\ count' = count
        BY <1>15, FetchLeaves
    <2>4. /\ Undisturbed /\ list.count = Len(m_vDisplay)
          /\ list.count > 0 /\ list.top = LastTop(list.count - 1)
        BY <1>5, <2>1, <2>3 DEF Untouched, Undisturbed
    <2>5. list'.top = LastTop(list.count)
        BY <1>1, <2>1, <2>4, ScrollsOn DEF Undisturbed
    <2>6. list'.count = list.count /\ list'.selected = list.selected
        BY <1>1, <2>1, ListScrolls
    <2>7. Undisturbed'
        BY <2>3, <2>4, <2>6 DEF Undisturbed
    <2> QED
        BY <2>2, <2>3, <2>4, <2>5, <2>6, <2>7 DEF Untouched, Undisturbed
<1>16. CASE (\E p \in Patterns \cup {Empty}, regex \in BOOLEAN : Submit(p, regex)) \/ UserActs
    <2>1. PICK c \in {count, [count EXCEPT !.filters = @ + 1]} : count' = [c EXCEPT !.touched = TRUE]
        BY <1>16, Zenon DEF Submit, UserActs
    <2>2. count'.touched
        BY <1>1, <2>1 DEF Counts
    <2> QED
        BY <1>5, <2>2
<1>17. CASE Clear \/ Scan \/ Show
    <2>1. win.pc # "idle" /\ count' = count
        BY <1>17 DEF Clear, Scan, Show
    <2> QED
        BY <1>5, <2>1 DEF Untouched
<1>18. CASE UNCHANGED vars
    BY <1>5, <1>18 DEF vars, filterVars, Untouched
<1> QED
    BY <1>6, <1>7, <1>8, <1>9, <1>10, <1>11, <1>12, <1>13, <1>14, <1>15, <1>16, <1>17,
       <1>18, OneThread

(* With one fetch thread, a list that nobody scrolls, selects in or filters *)
(* has all rows and shows the newest one when the thread is done with it:   *)
(* its own scrolling never looks to the code like the user's.               *)
THEOREM NewestShown ==
    ASSUME NEW f, Fetchers = {f}
    PROVE  Safety => []FollowsNewest
<1>1. Init => Untouched(f)
    BY DisplayBounds DEF Init, Untouched, LastTop
<1>2. DisplayInv /\ Untouched(f) /\ [Next]_vars => Untouched(f)'
    BY TouchStep
<1>3. Untouched(f) => FollowsNewest
    BY DEF Untouched, FollowsNewest, AtRest
<1> QED
    BY <1>1, <1>2, <1>3, DisplayAlways, PTL DEF Safety

=============================================================================
