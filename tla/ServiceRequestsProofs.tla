----------------------- MODULE ServiceRequestsProofs -----------------------
(***************************************************************************)
(* Theorems about ServiceRequests, for every value of its constants.       *)
(*                                                                         *)
(* What a request shows and the form of its history depend on each other   *)
(* only through the types, so one inductive invariant holds both.  That    *)
(* status changes have notes needs one form at a time, and then that the   *)
(* form shows the current status.                                          *)
(***************************************************************************)
EXTENDS ServiceRequests, TLAPS

IInv ==
  /\ TypeOK
  /\ ShownIsLastAsked
  /\ HistoryRecordsChanges

-----------------------------------------------------------------------------
\* What a form posts is a detail, with the posted status.
LEMMA NewDetailType ==
  ASSUME NEW status \in Statuses, NEW offering \in Offerings \cup {NoOffering},
         NEW hasNotes \in BOOLEAN
  PROVE  /\ NewDetail(status, offering, hasNotes) \in Detail
         /\ NewDetail(status, offering, hasNotes).status = status
         /\ NewDetail(status, offering, hasNotes).offering = offering
         /\ NewDetail(status, offering, hasNotes).hasNotes = hasNotes
  BY StatusAssumption DEF NewDetail, Detail

\* What appending to a sequence of details makes of it.
LEMMA AppendDetail ==
  ASSUME NEW s \in Seq(Detail), NEW d \in Detail
  PROVE  /\ Append(s, d) \in Seq(Detail)
         /\ Append(s, d) # <<>>
         /\ Len(Append(s, d)) = Len(s) + 1
         /\ \A i \in 1 .. Len(s) : Append(s, d)[i] = s[i]
         /\ Append(s, d)[Len(s) + 1] = d
  OBVIOUS

\* What a change of the offering of a detail makes of it.
LEMMA WithOfferingType ==
  ASSUME NEW d \in Detail, NEW o \in Offerings \cup {NoOffering}
  PROVE  /\ WithOffering(d, o) \in Detail
         /\ WithOffering(d, o).status = d.status
         /\ WithOffering(d, o).offering = o
         /\ WithOffering(d, o).hasNotes = d.hasNotes
  BY DEF WithOffering, Detail

\* What overwriting the last detail makes of a history.
LEMMA ReplaceLast ==
  ASSUME NEW s \in Seq(Detail), s # <<>>, NEW d \in Detail,
         NEW t, t = [s EXCEPT ![Len(s)] = d]
  PROVE  /\ t \in Seq(Detail)
         /\ t # <<>>
         /\ Len(t) = Len(s)
         /\ \A i \in 1 .. Len(s) : i < Len(s) => t[i] = s[i]
         /\ t[Len(s)] = d
  OBVIOUS

-----------------------------------------------------------------------------
\* What the post of an edit form makes of the history of its request r.
Edited(r, status, offering, hasNotes) ==
  /\ r \in Requests
  /\ details[r] \in Seq(Detail) /\ details[r] # <<>>
  /\ details' \in [Requests -> Seq(Detail)]
  /\ details'[r] # <<>>
  /\ \A q \in Requests \ {r} : details'[q] = details[q]
  /\ \A i \in 1 .. Len(details[r]) :
       /\ i < Len(details[r]) => details'[r][i] = details[r][i]
       /\ details'[r][i].status = details[r][i].status
       /\ details'[r][i].hasNotes = details[r][i].hasNotes
  /\ \/ /\ Len(details'[r]) = Len(details[r])
        /\ status = Latest(r).status
     \/ /\ Len(details'[r]) = Len(details[r]) + 1
        /\ status # Latest(r).status
        /\ details'[r][Len(details'[r])].hasNotes = hasNotes
  /\ details'[r][Len(details'[r])].status = status
  /\ details'[r][Len(details'[r])].offering = offering

\* Edit adds a detail for a new status and overwrites the offering of the last
\* detail otherwise; it leaves the rest of the history alone.
LEMMA EditChanges ==
  ASSUME TypeOK,
         NEW f \in Forms, NEW status \in Statuses,
         NEW offering \in Offerings \cup {NoOffering}, NEW hasNotes \in BOOLEAN,
         Edit(f, status, offering, hasNotes)
  PROVE  Edited(form[f].request, status, offering, hasNotes)
<1> DEFINE r == form[f].request
<1> SUFFICES Edited(r, status, offering, hasNotes)
  OBVIOUS
<1>1. r \in Requests
  BY DEF TypeOK, Edit, Form
<1>0. \/ status # Latest(r).status /\ CreateFulfillmentDetail(r, status, offering, hasNotes)
      \/ status = Latest(r).status /\ UpdateCurrentFulfillmentDetail(r, offering)
  BY DEF Edit
<1>2. details[r] \in Seq(Detail) /\ details[r] # <<>> /\ details \in [Requests -> Seq(Detail)]
  BY <1>1 DEF TypeOK, Edit
<1> HIDE DEF r
<1>3. Len(details[r]) \in 1 .. Len(details[r]) /\ Latest(r) \in Detail
  BY <1>2 DEF Latest
<1>4. CASE status # Latest(r).status /\ CreateFulfillmentDetail(r, status, offering, hasNotes)
  <2> DEFINE d == NewDetail(status, offering, hasNotes)
  <2>1. d \in Detail /\ d.status = status /\ d.offering = offering /\ d.hasNotes = hasNotes
    BY NewDetailType
  <2>2. details' = [details EXCEPT ![r] = Append(details[r], d)]
    BY <1>4 DEF CreateFulfillmentDetail
  <2> HIDE DEF d
  <2>3. details'[r] = Append(details[r], d)
    BY <1>1, <1>2, <2>2
  <2>4. \A q \in Requests \ {r} : details'[q] = details[q]
    BY <1>2, <2>2
  <2>5. details' \in [Requests -> Seq(Detail)]
    BY <1>1, <1>2, <2>1, <2>2
  <2> QED
    <3>1. /\ Append(details[r], d) \in Seq(Detail)
          /\ Append(details[r], d) # <<>>
          /\ Len(Append(details[r], d)) = Len(details[r]) + 1
          /\ \A i \in 1 .. Len(details[r]) : Append(details[r], d)[i] = details[r][i]
          /\ Append(details[r], d)[Len(details[r]) + 1] = d
      BY <1>2, <2>1, AppendDetail
    <3> QED
      BY <1>1, <1>2, <1>4, <2>1, <2>3, <2>4, <2>5, <3>1 DEF Edited
<1>5. CASE status = Latest(r).status /\ UpdateCurrentFulfillmentDetail(r, offering)
  <2> DEFINE d == WithOffering(Latest(r), offering)
             t == [details[r] EXCEPT ![Len(details[r])] = d]
  <2>1. /\ d \in Detail /\ d.status = status /\ d.offering = offering
        /\ d.hasNotes = Latest(r).hasNotes
    BY <1>3, <1>5, WithOfferingType
  <2>2. details' = [details EXCEPT ![r] = t]
    BY <1>5 DEF UpdateCurrentFulfillmentDetail
  <2> HIDE DEF d
  <2>3. /\ t \in Seq(Detail)
        /\ t # <<>>
        /\ Len(t) = Len(details[r])
        /\ \A i \in 1 .. Len(details[r]) : i < Len(details[r]) => t[i] = details[r][i]
        /\ t[Len(details[r])] = d
    BY <1>2, <2>1, ReplaceLast
  <2> HIDE DEF t
  <2>4. details'[r] = t /\ \A q \in Requests \ {r} : details'[q] = details[q]
    BY <1>1, <1>2, <2>2
  <2>5. details' \in [Requests -> Seq(Detail)]
    BY <1>1, <1>2, <2>2, <2>3
  <2>6. \A i \in 1 .. Len(details[r]) :
          /\ t[i].status = details[r][i].status
          /\ t[i].hasNotes = details[r][i].hasNotes
    BY <1>2, <1>5, <2>1, <2>3 DEF Latest
  <2> QED
    BY <1>1, <1>2, <1>5, <2>1, <2>3, <2>4, <2>5, <2>6 DEF Edited
<1> QED
  BY <1>0, <1>4, <1>5

\* The initial database satisfies the inductive invariant.
LEMMA InitIInv == Init => IInv
  BY DEF Init, IInv, TypeOK, ShownIsLastAsked, HistoryRecordsChanges

\* Every step keeps the inductive invariant.
LEMMA NextIInv == IInv /\ [Next]_vars => IInv'
<1> SUFFICES ASSUME IInv, [Next]_vars
             PROVE  IInv'
  OBVIOUS
<1> USE DEF IInv
<1>1. ASSUME NEW rs \in (SUBSET Requests) \ {{}}, Create(rs)
      PROVE  IInv'
  <2> DEFINE d == NewDetail(Open, NoOffering, FALSE)
             a == [status |-> Open, offering |-> NoOffering]
  <2>1. d \in Detail /\ d.status = Open /\ d.offering = NoOffering
    BY StatusAssumption DEF NewDetail, Detail
  <2>2. /\ details' = [r \in Requests |-> IF r \in rs THEN <<d>> ELSE details[r]]
        /\ asked' = [r \in Requests |-> IF r \in rs THEN a ELSE asked[r]]
        /\ form' = form
    BY <1>1 DEF Create
  <2>3. a \in Asked /\ a # NothingAsked /\ a.status = Open /\ a.offering = NoOffering
    BY StatusAssumption, AskedAssumption DEF Asked
  <2> HIDE DEF d, a
  <2>4. <<d>> \in Seq(Detail) /\ Len(<<d>>) = 1 /\ <<d>>[1] = d
    BY <2>1
  <2>5. TypeOK'
    BY <2>2, <2>3, <2>4 DEF TypeOK, Form
  <2>6. ShownIsLastAsked'
    BY <2>1, <2>2, <2>3, <2>4 DEF ShownIsLastAsked, Latest
  <2>7. HistoryRecordsChanges'
    BY <2>2, <2>4 DEF HistoryRecordsChanges
  <2> QED
    BY <2>5, <2>6, <2>7
<1>2. ASSUME NEW f \in Forms, NEW r \in Requests, OpenForm(f, r)
      PROVE  IInv'
  <2>1. Latest(r).status \in Statuses
    <3>1. details[r] \in Seq(Detail) /\ details[r] # <<>>
      BY <1>2 DEF OpenForm, TypeOK
    <3>2. Latest(r) \in Detail
      BY <3>1 DEF Latest
    <3> QED
      BY <3>2 DEF Detail
  <2>2. TypeOK'
    BY <1>2, <2>1 DEF OpenForm, TypeOK, Form
  <2> QED
    BY <1>2, <2>2 DEF OpenForm, ShownIsLastAsked, HistoryRecordsChanges, Latest
<1>3. ASSUME NEW f \in Forms, CloseForm(f)
      PROVE  IInv'
  BY <1>3 DEF CloseForm, TypeOK, ShownIsLastAsked, HistoryRecordsChanges, Latest
<1>4. ASSUME NEW f \in Forms, NEW status \in Statuses,
             NEW offering \in Offerings \cup {NoOffering}, NEW hasNotes \in BOOLEAN,
             Edit(f, status, offering, hasNotes)
      PROVE  IInv'
  <2> DEFINE r == form[f].request
             a == [status |-> status, offering |-> offering]
  <2>0. Edited(r, status, offering, hasNotes)
    BY <1>4, EditChanges
  <2>2. asked' = [asked EXCEPT ![r] = a] /\ form' = [form EXCEPT ![f] = NoForm]
    BY <1>4 DEF Edit
  <2> HIDE DEF r
  <2>1. /\ r \in Requests
        /\ details[r] \in Seq(Detail) /\ details[r] # <<>>
        /\ details' \in [Requests -> Seq(Detail)]
        /\ details'[r] # <<>>
        /\ \A q \in Requests \ {r} : details'[q] = details[q]
        /\ \A i \in 1 .. Len(details[r]) : details'[r][i].status = details[r][i].status
        /\ \/ Len(details'[r]) = Len(details[r])
           \/ /\ Len(details'[r]) = Len(details[r]) + 1
              /\ status # Latest(r).status
        /\ details'[r][Len(details'[r])].status = status
        /\ details'[r][Len(details'[r])].offering = offering
    BY <2>0 DEF Edited
  <2>3. a \in Asked /\ a # NothingAsked /\ a.status = status /\ a.offering = offering
    BY AskedAssumption DEF Asked
  <2> HIDE DEF a
  <2>4. TypeOK'
    BY <2>1, <2>2, <2>3 DEF TypeOK, Form
  <2>5. ShownIsLastAsked'
    <3> SUFFICES ASSUME NEW q \in Requests, details'[q] # <<>>
                 PROVE  /\ details'[q][Len(details'[q])].status = asked'[q].status
                        /\ details'[q][Len(details'[q])].offering = asked'[q].offering
      BY DEF ShownIsLastAsked, Latest
    <3>1. CASE q = r
      BY <2>1, <2>2, <2>3, <3>1 DEF TypeOK
    <3>2. CASE q # r
      BY <2>1, <2>2, <3>2 DEF TypeOK, ShownIsLastAsked, Latest
    <3> QED
      BY <3>1, <3>2
  <2>6. HistoryRecordsChanges'
    <3> SUFFICES ASSUME NEW q \in Requests, NEW i \in 1 .. Len(details'[q]) - 1
                 PROVE  details'[q][i].status # details'[q][i + 1].status
      BY DEF HistoryRecordsChanges
    <3>1. CASE q # r
      BY <2>1, <3>1 DEF HistoryRecordsChanges
    <3>2. CASE q = r /\ i \in 1 .. Len(details[r]) - 1
      <4>1. details[r][i].status # details[r][i + 1].status
        BY <2>1, <3>2 DEF HistoryRecordsChanges
      <4>2. i \in 1 .. Len(details[r]) /\ i + 1 \in 1 .. Len(details[r])
        BY <2>1, <3>2
      <4> QED
        BY <2>1, <3>2, <4>1, <4>2
    <3>3. CASE q = r /\ i = Len(details[r])
      <4>1. Len(details'[r]) = Len(details[r]) + 1 /\ status # details[r][i].status
        BY <2>1, <3>3 DEF Latest
      <4>2. details'[r][i + 1].status = status /\ details'[r][i].status = details[r][i].status
        BY <2>1, <3>3, <4>1
      <4> QED
        BY <3>3, <4>1, <4>2
    <3>4. q = r => i \in 1 .. Len(details[r])
      BY <2>1
    <3>5. q = r => i \in 1 .. Len(details[r]) - 1 \/ i = Len(details[r])
      BY <2>1, <3>4
    <3> QED
      BY <3>1, <3>2, <3>3, <3>5
  <2> QED
    BY <2>4, <2>5, <2>6
<1>5. ASSUME NEW r \in Requests, Delete(r)
      PROVE  IInv'
  <2>1. <<>> \in Seq(Detail) /\ Len(<<>>) = 0
    OBVIOUS
  <2>2. TypeOK'
    BY <1>5, <2>1 DEF Delete, TypeOK
  <2>3. ShownIsLastAsked'
    BY <1>5 DEF Delete, TypeOK, ShownIsLastAsked, Latest
  <2>4. HistoryRecordsChanges'
    BY <1>5, <2>1 DEF Delete, TypeOK, HistoryRecordsChanges
  <2> QED
    BY <2>2, <2>3, <2>4
<1>6. CASE UNCHANGED vars
  BY <1>6 DEF vars, TypeOK, ShownIsLastAsked, HistoryRecordsChanges, Latest
<1> QED
  BY <1>1, <1>2, <1>3, <1>4, <1>5, <1>6 DEF Next

-----------------------------------------------------------------------------
\* Every variable always has its type, and an open form is about a request
\* that was made.
THEOREM TypeCorrect == Spec => []TypeOK
<1>1. IInv => TypeOK
  BY DEF IInv
<1> QED
  BY <1>1, InitIInv, NextIInv, PTL DEF Spec

\* However many forms are open and in whatever order they are posted, a request
\* shows the status and the offering of the form posted last.
THEOREM ShowsLastAsked == Spec => []ShownIsLastAsked
<1>1. IInv => ShownIsLastAsked
  BY DEF IInv
<1> QED
  BY <1>1, InitIInv, NextIInv, PTL DEF Spec

\* Each detail in a history is a change of status.
THEOREM HistoryIsOfChanges == Spec => []HistoryRecordsChanges
<1>1. IInv => HistoryRecordsChanges
  BY DEF IInv
<1> QED
  BY <1>1, InitIInv, NextIInv, PTL DEF Spec

\* Edits never rewrite a past fulfillment.
THEOREM HistoryKept == Spec => HistoryIsKept
<1> DEFINE A == \A r \in Requests : details'[r] # <<>> =>
                  /\ Len(details'[r]) >= Len(details[r])
                  /\ \A i \in 1 .. Len(details[r]) :
                       /\ i < Len(details[r]) => details'[r][i] = details[r][i]
                       /\ details'[r][i].status = details[r][i].status
                       /\ details'[r][i].hasNotes = details[r][i].hasNotes
<1>1. IInv /\ [Next]_vars => [A]_vars
  <2> SUFFICES ASSUME IInv, Next, NEW r \in Requests, details'[r] # <<>>
               PROVE  /\ Len(details'[r]) >= Len(details[r])
                      /\ \A i \in 1 .. Len(details[r]) :
                           /\ i < Len(details[r]) => details'[r][i] = details[r][i]
                           /\ details'[r][i].status = details[r][i].status
                           /\ details'[r][i].hasNotes = details[r][i].hasNotes
    OBVIOUS
  <2>1. details[r] \in Seq(Detail) /\ Len(details[r]) \in Nat
    BY DEF IInv, TypeOK
  <2>2. CASE details'[r] = details[r]
    BY <2>1, <2>2
  <2>3. ASSUME NEW rs \in (SUBSET Requests) \ {{}}, Create(rs), r \in rs
        PROVE  details[r] = <<>> /\ Len(details'[r]) = 1
    BY <2>3 DEF Create, IInv, TypeOK
  <2>4. ASSUME NEW f \in Forms, NEW status \in Statuses,
               NEW offering \in Offerings \cup {NoOffering}, NEW hasNotes \in BOOLEAN,
               Edit(f, status, offering, hasNotes), details'[r] # details[r]
        PROVE  Edited(r, status, offering, hasNotes)
    <3>1. Edited(form[f].request, status, offering, hasNotes)
      BY <2>4, EditChanges DEF IInv
    <3>2. r = form[f].request
      BY <2>4, <3>1 DEF Edited
    <3> QED
      BY <3>1, <3>2
  <2>5. ASSUME NEW q \in Requests, Delete(q)
        PROVE  details'[r] = details[r]
    BY <2>5 DEF Delete, IInv, TypeOK
  <2>6. CASE \E rs \in (SUBSET Requests) \ {{}} : Create(rs)
    <3>1. details'[r] # details[r] => details[r] = <<>> /\ Len(details'[r]) = 1
      BY <2>3, <2>6 DEF Create
    <3> QED
      BY <2>1, <2>2, <3>1
  <2>7. CASE \E f \in Forms, status \in Statuses, offering \in Offerings \cup {NoOffering},
               hasNotes \in BOOLEAN : Edit(f, status, offering, hasNotes)
    <3> SUFFICES ASSUME details'[r] # details[r]
                 PROVE  /\ Len(details'[r]) >= Len(details[r])
                        /\ \A i \in 1 .. Len(details[r]) :
                             /\ i < Len(details[r]) => details'[r][i] = details[r][i]
                             /\ details'[r][i].status = details[r][i].status
                             /\ details'[r][i].hasNotes = details[r][i].hasNotes
      BY <2>2
    <3>1. PICK status \in Statuses, offering \in Offerings \cup {NoOffering},
               hasNotes \in BOOLEAN : Edited(r, status, offering, hasNotes)
      BY <2>4, <2>7
    <3> QED
      BY <2>1, <3>1 DEF Edited
  <2>8. CASE (\E f \in Forms, q \in Requests : OpenForm(f, q)) \/ (\E f \in Forms : CloseForm(f))
    BY <2>2, <2>8 DEF OpenForm, CloseForm
  <2>9. CASE \E q \in Requests : Delete(q)
    BY <2>2, <2>5, <2>9
  <2> QED
    BY <2>6, <2>7, <2>8, <2>9 DEF Next
<1> QED
  BY <1>1, InitIInv, NextIInv, PTL DEF Spec, HistoryIsKept

-----------------------------------------------------------------------------
\* What every form shows, however late it is posted: a status its request has had.
FormShowsPast ==
  \A f \in Forms : form[f] # NoForm /\ details[form[f].request] # <<>> =>
    \E j \in 1 .. Len(details[form[f].request]) :
      details[form[f].request][j].status = form[f].original

GInv == IInv /\ FormShowsPast /\ UnnotedChangeGoesBack

\* Posts only add to a history, so what forms show of it stays in it.
LEMMA NextGInv == GInv /\ [Next]_vars => GInv'
<1> SUFFICES ASSUME GInv, [Next]_vars
             PROVE  FormShowsPast' /\ UnnotedChangeGoesBack'
  BY NextIInv DEF GInv
<1> USE DEF GInv, IInv
<1>1. ASSUME NEW rs \in (SUBSET Requests) \ {{}}, Create(rs)
      PROVE  FormShowsPast' /\ UnnotedChangeGoesBack'
  <2>1. \A r \in Requests : r \notin rs => details'[r] = details[r]
    BY <1>1 DEF Create
  <2>2. \A r \in rs : asked[r] = NothingAsked /\ Len(details'[r]) = 1
    BY <1>1 DEF Create
  <2>3. \A f \in Forms : form[f] # NoForm => form[f].request \in Requests \ rs
    BY <2>2 DEF TypeOK, Form
  <2>4. FormShowsPast'
    BY <1>1, <2>1, <2>3 DEF Create, FormShowsPast
  <2>5. UnnotedChangeGoesBack'
    BY <1>1, <2>1, <2>2 DEF Create, UnnotedChangeGoesBack
  <2> QED
    BY <2>4, <2>5
<1>2. ASSUME NEW f \in Forms, NEW r \in Requests, OpenForm(f, r)
      PROVE  FormShowsPast' /\ UnnotedChangeGoesBack'
  <2>1. details[r] \in Seq(Detail) /\ details[r] # <<>>
    BY <1>2 DEF OpenForm, TypeOK
  <2>2. Len(details[r]) \in 1 .. Len(details[r])
    BY <2>1
  <2> QED
    BY <1>2, <2>2 DEF OpenForm, TypeOK, Form, FormShowsPast, UnnotedChangeGoesBack, Latest
<1>3. ASSUME NEW f \in Forms, CloseForm(f)
      PROVE  FormShowsPast' /\ UnnotedChangeGoesBack'
  BY <1>3 DEF CloseForm, TypeOK, FormShowsPast, UnnotedChangeGoesBack
<1>4. ASSUME NEW f \in Forms, NEW status \in Statuses,
             NEW offering \in Offerings \cup {NoOffering}, NEW hasNotes \in BOOLEAN,
             Edit(f, status, offering, hasNotes)
      PROVE  FormShowsPast' /\ UnnotedChangeGoesBack'
  <2> DEFINE r == form[f].request
  <2>1. /\ form[f] # NoForm
        /\ details[r] # <<>>
        /\ status # form[f].original => hasNotes
        /\ form' = [form EXCEPT ![f] = NoForm]
    BY <1>4 DEF Edit
  <2>2. PICK k \in 1 .. Len(details[r]) : details[r][k].status = form[f].original
    BY <2>1 DEF FormShowsPast
  <2>3. Edited(r, status, offering, hasNotes)
    BY <1>4, EditChanges
  <2>4. \A q \in Requests : /\ Len(details'[q]) \in Nat /\ Len(details[q]) \in Nat
                            /\ Len(details[q]) <= Len(details'[q])
                            /\ \A i \in 1 .. Len(details[q]) :
                                 /\ details'[q][i].status = details[q][i].status
                                 /\ details'[q][i].hasNotes = details[q][i].hasNotes
    BY <2>3 DEF Edited, TypeOK
  <2>5. FormShowsPast'
    <3> SUFFICES ASSUME NEW g \in Forms, form'[g] # NoForm, details'[form'[g].request] # <<>>
                 PROVE  \E j \in 1 .. Len(details'[form'[g].request]) :
                          details'[form'[g].request][j].status = form'[g].original
      BY DEF FormShowsPast
    <3>1. form'[g] = form[g] /\ form[g].request \in Requests
      BY <2>1 DEF TypeOK, Form
    <3> DEFINE q == form[g].request
    <3>2. details[q] # <<>>
      BY <2>1, <2>3, <3>1 DEF Edited
    <3>3. PICK j \in 1 .. Len(details[q]) : details[q][j].status = form[g].original
      BY <3>1, <3>2 DEF FormShowsPast
    <3>4. j \in 1 .. Len(details'[q]) /\ details'[q][j].status = form[g].original
      BY <2>4, <3>1, <3>3
    <3> QED
      BY <3>1, <3>4
  <2> HIDE DEF r
  <2>6. UnnotedChangeGoesBack'
    <3> SUFFICES ASSUME NEW q \in Requests, NEW i \in 2 .. Len(details'[q]), ~details'[q][i].hasNotes
                 PROVE  \E j \in 1 .. i - 1 : details'[q][j].status = details'[q][i].status
      BY DEF UnnotedChangeGoesBack
    <3>1. CASE i \in 2 .. Len(details[q])
      <4>1. i \in 1 .. Len(details[q])
        BY <2>4, <3>1
      <4>2. ~details[q][i].hasNotes
        BY <2>4, <4>1
      <4>3. PICK j \in 1 .. i - 1 : details[q][j].status = details[q][i].status
        BY <3>1, <4>2 DEF UnnotedChangeGoesBack
      <4>4. j \in 1 .. Len(details[q])
        BY <2>4, <3>1
      <4> QED
        BY <2>4, <4>1, <4>3, <4>4
    <3>2. CASE i \notin 2 .. Len(details[q])
      <4>1. q = r
        BY <2>3, <3>2 DEF Edited
      <4>2. /\ i = Len(details[r]) + 1 /\ i = Len(details'[r])
            /\ details'[r][i].hasNotes = hasNotes /\ details'[r][i].status = status
        BY <2>3, <2>4, <3>2, <4>1 DEF Edited
      <4>3. status = form[f].original
        BY <2>1, <4>1, <4>2
      <4>4. k \in 1 .. i - 1 /\ details'[r][k].status = status
        BY <2>2, <2>3, <2>4, <4>2, <4>3 DEF Edited
      <4> QED
        BY <4>1, <4>2, <4>4
    <3> QED
      BY <3>1, <3>2
  <2> QED
    BY <2>5, <2>6
<1>5. ASSUME NEW r \in Requests, Delete(r)
      PROVE  FormShowsPast' /\ UnnotedChangeGoesBack'
  <2>1. details' = [details EXCEPT ![r] = <<>>] /\ form' = form /\ Len(<<>>) = 0
    BY <1>5 DEF Delete
  <2> QED
    BY <2>1 DEF TypeOK, Form, FormShowsPast, UnnotedChangeGoesBack
<1>6. CASE UNCHANGED vars
  BY <1>6 DEF vars, FormShowsPast, UnnotedChangeGoesBack
<1> QED
  BY <1>1, <1>2, <1>3, <1>4, <1>5, <1>6 DEF Next

\* However many forms are open, a change of status without notes only puts back
\* a status the request has had.
THEOREM UnnotedChangesGoBack == Spec => []UnnotedChangeGoesBack
<1>1. Init => GInv
  BY InitIInv DEF GInv, Init, FormShowsPast, UnnotedChangeGoesBack
<1>2. GInv => UnnotedChangeGoesBack
  BY DEF GInv
<1> QED
  BY <1>1, <1>2, NextGInv, PTL DEF Spec

-----------------------------------------------------------------------------
\* What one editor at a time guarantees: the open form shows the current status.
FormShowsCurrent ==
  \A f \in Forms : form[f] # NoForm /\ details[form[f].request] # <<>> =>
    form[f].original = Latest(form[f].request).status

NInv == IInv /\ FormShowsCurrent /\ StatusChangeHasNotes

\* With a single form, every step keeps it and asks for notes.
LEMMA NextNInv ==
  ASSUME \A f, g \in Forms : f = g
  PROVE  NInv /\ [Next]_vars => NInv'
<1> SUFFICES ASSUME NInv, [Next]_vars
             PROVE  FormShowsCurrent' /\ StatusChangeHasNotes'
  BY NextIInv DEF NInv
<1> USE DEF NInv, IInv
<1>1. ASSUME NEW rs \in (SUBSET Requests) \ {{}}, Create(rs)
      PROVE  FormShowsCurrent' /\ StatusChangeHasNotes'
  <2>1. \A r \in Requests : r \notin rs => details'[r] = details[r]
    BY <1>1 DEF Create
  <2>2. \A r \in rs : asked[r] = NothingAsked /\ Len(details'[r]) = 1
    BY <1>1 DEF Create
  <2>3. \A f \in Forms : form[f] # NoForm => form[f].request \in Requests \ rs
    BY <2>2 DEF TypeOK, Form
  <2>4. FormShowsCurrent'
    BY <1>1, <2>1, <2>3 DEF Create, FormShowsCurrent, Latest
  <2>5. StatusChangeHasNotes'
    BY <1>1, <2>1, <2>2 DEF Create, StatusChangeHasNotes
  <2> QED
    BY <2>4, <2>5
<1>2. ASSUME NEW f \in Forms, NEW r \in Requests, OpenForm(f, r)
      PROVE  FormShowsCurrent' /\ StatusChangeHasNotes'
  BY <1>2 DEF OpenForm, TypeOK, Form, FormShowsCurrent, StatusChangeHasNotes, Latest
<1>3. ASSUME NEW f \in Forms, CloseForm(f)
      PROVE  FormShowsCurrent' /\ StatusChangeHasNotes'
  BY <1>3 DEF CloseForm, TypeOK, FormShowsCurrent, StatusChangeHasNotes, Latest
<1>4. ASSUME NEW f \in Forms, NEW status \in Statuses,
             NEW offering \in Offerings \cup {NoOffering}, NEW hasNotes \in BOOLEAN,
             Edit(f, status, offering, hasNotes)
      PROVE  FormShowsCurrent' /\ StatusChangeHasNotes'
  <2> DEFINE r == form[f].request
  <2>1. /\ form[f] # NoForm
        /\ details[r] # <<>>
        /\ status # form[f].original => hasNotes
        /\ form' = [form EXCEPT ![f] = NoForm]
    BY <1>4 DEF Edit
  <2>2. form[f].original = Latest(r).status
    BY <2>1 DEF FormShowsCurrent
  <2>3. Edited(r, status, offering, hasNotes)
    BY <1>4, EditChanges
  <2>4. FormShowsCurrent'
    BY <2>1 DEF FormShowsCurrent, TypeOK
  <2> HIDE DEF r
  <2>5. StatusChangeHasNotes'
    <3> SUFFICES ASSUME NEW q \in Requests, NEW i \in 2 .. Len(details'[q])
                 PROVE  details'[q][i].hasNotes
      BY DEF StatusChangeHasNotes
    <3>1. CASE q # r
      BY <2>3, <3>1 DEF Edited, StatusChangeHasNotes
    <3>2. CASE q = r /\ i \in 2 .. Len(details[r])
      <4>1. details[r][i].hasNotes
        BY <2>3, <3>2 DEF Edited, StatusChangeHasNotes
      <4>2. i \in 1 .. Len(details[r])
        BY <2>3, <3>2 DEF Edited
      <4> QED
        BY <2>3, <3>2, <4>1, <4>2 DEF Edited
    <3>3. CASE q = r /\ i \notin 2 .. Len(details[r])
      <4>1. i = Len(details'[r]) /\ status # Latest(r).status /\ details'[r][i].hasNotes = hasNotes
        BY <2>3, <3>3 DEF Edited
      <4> QED
        BY <2>1, <2>2, <3>3, <4>1
    <3> QED
      BY <3>1, <3>2, <3>3
  <2> QED
    BY <2>4, <2>5
<1>5. ASSUME NEW r \in Requests, Delete(r)
      PROVE  FormShowsCurrent' /\ StatusChangeHasNotes'
  <2>1. details' = [details EXCEPT ![r] = <<>>] /\ form' = form /\ Len(<<>>) = 0
    BY <1>5 DEF Delete
  <2> QED
    BY <2>1 DEF TypeOK, Form, FormShowsCurrent, StatusChangeHasNotes, Latest
<1>6. CASE UNCHANGED vars
  BY <1>6 DEF vars, FormShowsCurrent, StatusChangeHasNotes, Latest
<1> QED
  BY <1>1, <1>2, <1>3, <1>4, <1>5, <1>6 DEF Next

\* With a single form open at a time, every change of status has notes, as the
\* controller's message says.
THEOREM OneEditorLeavesNotes ==
  ASSUME \A f, g \in Forms : f = g
  PROVE  Spec => []StatusChangeHasNotes
<1>1. Init => NInv
  BY InitIInv DEF NInv, Init, FormShowsCurrent, StatusChangeHasNotes
<1>2. NInv /\ [Next]_vars => NInv'
  BY NextNInv
<1>3. NInv => StatusChangeHasNotes
  BY DEF NInv
<1> QED
  BY <1>1, <1>2, <1>3, PTL DEF Spec

=============================================================================
