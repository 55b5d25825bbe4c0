-------------------------- MODULE CandidateMailProofs --------------------------
(***************************************************************************)
(* Theorems about the status of an application and its mails, for any set  *)
(* of documents, and any number of attempts, requests and handlers.        *)
(*                                                                         *)
(* Received ties every place where the acknowledgement can be -- with the  *)
(* provider, or with a handler -- to the uploads; Counted ties the mails   *)
(* that reject to the requests that may still write one.                   *)
(***************************************************************************)
EXTENDS CandidateMail, FiniteSetTheorems, TLAPS

Received ==
    /\ status = "none" => mail[Acknowledgement] = NoMail
    /\ Acknowledgement \in accepted => status # "none" /\ uploads = {}
    /\ \A h \in work : h.key = Acknowledgement => status # "none" /\ uploads = {}

Counted ==
    /\ OneMailPerRejection
    /\ \A p \in patches : p.mails => p.to = "rejected" /\ p.from # "rejected"

-----------------------------------------------------------------------------
LEMMA Numbers ==
    /\ MaxAttempts \in Nat \ {0} /\ MaxPatches \in Nat
    /\ Acknowledgement \in Key
    /\ 1..MaxPatches \subseteq Key /\ Acknowledgement \notin 1..MaxPatches
BY MailAssumption DEF Acknowledgement, Key

Mail == [status : {"none", "pending", "processing", "completed", "failed"},
         attempts : 0..MaxAttempts]

\* Every row and every handler is well formed.
THEOREM MailTypeCorrect == Spec => []TypeOK
<1> USE Numbers
<1>1. Init => TypeOK
  BY DEF Init, TypeOK, NoMail
<1>2. TypeOK /\ [Next]_vars => TypeOK'
  <2> SUFFICES ASSUME TypeOK, [Next]_vars PROVE TypeOK'
    OBVIOUS
  <2>a. Pending \in Mail /\ NoMail \in Mail /\ mail \in [Key -> Mail]
    BY DEF TypeOK, Mail, Pending, NoMail
  <2>1. CASE Submit
    <3>1. mail' \in [Key -> Mail]
      BY <2>1, <2>a DEF Submit
    <3>2. QED
      BY <2>1, <3>1 DEF Submit, TypeOK, Mail, Status
  <2>2. ASSUME NEW d \in Doc, Uploaded(d) PROVE TypeOK'
    BY <2>2 DEF Uploaded, TypeOK
  <2>3. CASE Remove
    <3>1. mail' \in [Key -> Mail]
      BY <2>3, <2>a DEF Remove
    <3>2. QED
      BY <2>3, <3>1 DEF Remove, TypeOK, Mail
  <2>4. ASSUME NEW to \in Status, NEW mails \in BOOLEAN, Read(to, mails) PROVE TypeOK'
    <3>1. patched' \in 1..MaxPatches /\ patched' = patched + 1
      BY <2>4 DEF Read, TypeOK
    <3>2. patches' \subseteq [id : 1..patched', from : Status, to : Status, mails : BOOLEAN]
      <4>1. patches' = patches \cup
                {[id |-> patched', from |-> status, to |-> to, mails |-> mails]}
        BY <2>4 DEF Read
      <4>2. [id |-> patched', from |-> status, to |-> to, mails |-> mails]
                \in [id : 1..patched', from : Status, to : Status, mails : BOOLEAN]
        BY <2>4, <3>1 DEF Read
      <4>3. 1..patched \subseteq 1..patched'
        BY <3>1 DEF TypeOK
      <4>4. \A p \in patches : p \in [id : 1..patched', from : Status, to : Status,
                                      mails : BOOLEAN]
        BY <4>3 DEF TypeOK
      <4>5. QED
        BY <4>1, <4>2, <4>4
    <3>3. UNCHANGED <<status, uploads, mail, accepted, rejections, work>>
      BY <2>4 DEF Read
    <3>4. QED
      BY <3>1, <3>2, <3>3 DEF TypeOK
  <2>5. ASSUME NEW p \in patches, Patch(p) PROVE TypeOK'
    <3>1. /\ p.id \in Key /\ p.to \in Status
          /\ UNCHANGED <<uploads, accepted, patched, work>> /\ patches' \subseteq patches
      BY <2>5 DEF Patch, TypeOK, Key
    <3>2. mail' \in [Key -> Mail]
      BY <2>5, <2>a, <3>1 DEF Patch
    <3>3. status' \in Status \cup {"none", "gone"} /\ rejections' \in Nat
      BY <2>5, <3>1 DEF Patch, TypeOK
    <3>4. QED
      BY <3>1, <3>2, <3>3 DEF TypeOK, Mail
  <2>6. ASSUME NEW k \in Key, Claim(k) PROVE TypeOK'
    <3>1. mail[k].attempts + 1 \in 1..MaxAttempts
      BY <2>6, <2>a DEF Claim, Mail
    <3>2. mail' \in [Key -> Mail]
      BY <2>6, <2>a, <3>1 DEF Claim, Mail
    <3>3. work' \subseteq [key : Key, attempt : 1..MaxAttempts, at : {"claimed", "sent"}]
      BY <2>6, <3>1 DEF Claim, TypeOK
    <3>4. QED
      BY <2>6, <3>2, <3>3 DEF Claim, TypeOK, Mail
  <2>7. ASSUME NEW k \in Key, Exhaust(k) PROVE TypeOK'
    <3>1. mail' \in [Key -> Mail]
      BY <2>7, <2>a DEF Exhaust, Mail
    <3>2. QED
      BY <2>7, <3>1 DEF Exhaust, TypeOK, Mail
  <2>8. ASSUME NEW h \in work, HandlerStep(h) PROVE TypeOK'
    <3>1. h \in [key : Key, attempt : 1..MaxAttempts, at : {"claimed", "sent"}]
      BY DEF TypeOK
    <3>2. CASE Send(h)
      <4>1. [h EXCEPT !.at = "sent"]
                \in [key : Key, attempt : 1..MaxAttempts, at : {"claimed", "sent"}]
        BY <3>1
      <4>2. QED
        BY <3>1, <3>2, <4>1 DEF Send, TypeOK
    <3>3. CASE Record(h)
      <4>1. mail' \in [Key -> Mail]
        BY <3>1, <3>3, <2>a DEF Record, Mail
      <4>2. QED
        BY <3>3, <4>1 DEF Record, Leaves, TypeOK, Mail
    <3>4. CASE Retry(h)
      <4>1. mail' \in [Key -> Mail]
        BY <3>1, <3>4, <2>a DEF Retry, Mail
      <4>2. QED
        BY <3>1, <3>4, <4>1 DEF Retry, Leaves, TypeOK, Mail
    <3>5. CASE Drop(h)
      BY <3>5 DEF Drop, Leaves, TypeOK
    <3>6. QED
      BY <2>8, <3>2, <3>3, <3>4, <3>5 DEF HandlerStep
  <2>9. CASE UNCHANGED vars
    BY <2>9 DEF vars, TypeOK
  <2>10. QED
    BY <2>1, <2>2, <2>3, <2>4, <2>5, <2>6, <2>7, <2>8, <2>9 DEF Next
<1>3. QED
  BY <1>1, <1>2, PTL DEF Spec

-----------------------------------------------------------------------------
\* The acknowledgement leaves only when every document is uploaded, and what
\* was uploaded is never pending again.
THEOREM AcknowledgementCorrect == Spec => []AcknowledgedIsUploaded
<1> USE Numbers
<1>1. Init => Received
  BY DEF Init, Received
<1>2. TypeOK /\ Received /\ [Next]_vars => Received'
  <2> SUFFICES ASSUME TypeOK, Received, [Next]_vars PROVE Received'
    OBVIOUS
  <2>1. CASE Submit
    BY <2>1 DEF Submit, Received
  <2>2. ASSUME NEW d \in Doc, Uploaded(d) PROVE Received'
    BY <2>2 DEF Uploaded, Received
  <2>3. CASE Remove
    BY <2>3 DEF Remove, Received
  <2>4. ASSUME NEW to \in Status, NEW mails \in BOOLEAN, Read(to, mails) PROVE Received'
    BY <2>4 DEF Read, Received
  <2>5. ASSUME NEW p \in patches, Patch(p) PROVE Received'
    <3>1. p.id # Acknowledgement /\ p.to \in Status /\ p.id \in Key
      BY DEF TypeOK, Key, Acknowledgement
    <3>2. status' = "none" => status = "none" /\ UNCHANGED mail
      BY <2>5, <3>1 DEF Patch, Status
    <3>3. status = "none" => status' = "none"
      BY <2>5 DEF Patch, Status
    <3>4. QED
      BY <2>5, <3>2, <3>3 DEF Patch, Received
  <2>6. ASSUME NEW k \in Key, Claim(k) PROVE Received'
    <3>1. k = Acknowledgement => status # "none" /\ uploads = {}
      BY <2>6 DEF Claim, Active, Received, NoMail
    <3>2. mail'[Acknowledgement] = mail[Acknowledgement] \/ k = Acknowledgement
      BY <2>6 DEF Claim, TypeOK
    <3>3. \A h \in work' : h \in work \/ h.key = k
      BY <2>6 DEF Claim
    <3>4. QED
      BY <2>6, <3>1, <3>2, <3>3 DEF Claim, Received
  <2>7. ASSUME NEW k \in Key, Exhaust(k) PROVE Received'
    BY <2>7 DEF Exhaust, Received, TypeOK, NoMail
  <2>8. ASSUME NEW h \in work, HandlerStep(h) PROVE Received'
    <3>1. h.key \in Key
      BY DEF TypeOK
    <3>2. CASE Send(h)
      <4>1. \A g \in work' : g \in work \/ g.key = h.key
        BY <3>2 DEF Send, TypeOK
      <4>2. QED
        BY <3>2, <4>1 DEF Send, Received
    <3>3. ASSUME Record(h) \/ Retry(h)
          PROVE  status = "none" => mail'[Acknowledgement] = NoMail
      BY <3>1, <3>3 DEF Record, Retry, Holds, Received, NoMail, TypeOK
    <3>4. CASE Record(h)
      BY <3>3, <3>4 DEF Record, Leaves, Received
    <3>5. CASE Retry(h)
      BY <3>3, <3>5 DEF Retry, Leaves, Received
    <3>6. CASE Drop(h)
      BY <3>6 DEF Drop, Leaves, Received
    <3>7. QED
      BY <2>8, <3>2, <3>4, <3>5, <3>6 DEF HandlerStep
  <2>9. CASE UNCHANGED vars
    BY <2>9 DEF vars, Received
  <2>10. QED
    BY <2>1, <2>2, <2>3, <2>4, <2>5, <2>6, <2>7, <2>8, <2>9 DEF Next
<1>3. Received => AcknowledgedIsUploaded
  BY DEF Received, AcknowledgedIsUploaded
<1>4. QED
  BY <1>1, <1>2, <1>3, MailTypeCorrect, PTL DEF Spec

-----------------------------------------------------------------------------
LEMMA RejectionsFinite ==
    Rejections \subseteq 1..MaxPatches /\ IsFiniteSet(Rejections)
      /\ Cardinality(Rejections) \in Nat
<1>1. IsFiniteSet(1..MaxPatches)
  BY Numbers, FS_Interval
<1>2. Rejections \subseteq 1..MaxPatches
  BY DEF Rejections
<1>3. QED
  BY <1>1, <1>2, FS_Subset, FS_CardinalityType

\* A step that writes no mail anew leaves the rejections counted.
LEMMA NoNewRejection ==
    ASSUME TypeOK, Counted, rejections' = rejections,
           \A k \in 1..MaxPatches : mail[k] = NoMail => mail'[k] = NoMail,
           \A p \in patches' : p \in patches
    PROVE  Counted'
<1>1. Rejections' \subseteq Rejections
  BY DEF Rejections
<1>2. Cardinality(Rejections') <= Cardinality(Rejections) /\ Cardinality(Rejections') \in Nat
  BY <1>1, RejectionsFinite, FS_Subset, FS_CardinalityType
<1>3. QED
  BY <1>2, RejectionsFinite DEF Counted, OneMailPerRejection, TypeOK

\* Of the recruiters that reject an application at once only one writes, and
\* its mail is the only one.
THEOREM RejectionCorrect == Spec => []OneMailPerRejection
<1> USE Numbers
<1>1. Init => Counted
  <2> SUFFICES ASSUME Init PROVE Counted
    OBVIOUS
  <2>1. Rejections = {}
    BY DEF Init, Rejections, Key
  <2>2. Cardinality(Rejections) = 0
    BY <2>1, FS_EmptySet
  <2>3. QED
    BY <2>2 DEF Init, Counted, OneMailPerRejection
<1>2. TypeOK /\ Counted /\ [Next]_vars => Counted'
  <2> SUFFICES ASSUME TypeOK, Counted, [Next]_vars PROVE Counted'
    OBVIOUS
  <2>1. CASE Submit
    BY <2>1, NoNewRejection DEF Submit, TypeOK
  <2>2. ASSUME NEW d \in Doc, Uploaded(d) PROVE Counted'
    BY <2>2, NoNewRejection DEF Uploaded
  <2>3. CASE Remove
    BY <2>3, NoNewRejection DEF Remove
  <2>4. ASSUME NEW to \in Status, NEW mails \in BOOLEAN, Read(to, mails) PROVE Counted'
    <3>1. /\ Rejections' = Rejections /\ rejections' = rejections
          /\ \A p \in patches' : p \in patches
                 \/ (p.mails = mails /\ p.to = to /\ p.from = status)
      BY <2>4 DEF Read, Rejections
    <3>2. mails => to = "rejected" /\ status # "rejected"
      BY <2>4 DEF Read
    <3>3. QED
      BY <3>1, <3>2 DEF Counted, OneMailPerRejection
  <2>5. ASSUME NEW p \in patches, Patch(p) PROVE Counted'
    <3>1. p.id \in 1..MaxPatches
      BY DEF TypeOK
    <3>2. CASE status \in Status /\ (p.to # p.from => status = p.from) /\ p.mails
      <4>1. /\ mail' = [mail EXCEPT ![p.id] = Pending] /\ rejections' = rejections + 1
        BY <2>5, <3>2 DEF Patch, Counted
      <4>2. Rejections' \subseteq Rejections \cup {p.id}
        BY <4>1 DEF Rejections, TypeOK
      <4>3. /\ IsFiniteSet(Rejections \cup {p.id})
            /\ Cardinality(Rejections \cup {p.id}) <= Cardinality(Rejections) + 1
        BY RejectionsFinite, FS_AddElement
      <4>4. Cardinality(Rejections') <= Cardinality(Rejections) + 1
            /\ Cardinality(Rejections') \in Nat
        <5>1. /\ Cardinality(Rejections') \in Nat
              /\ Cardinality(Rejections \cup {p.id}) \in Nat
              /\ Cardinality(Rejections') <= Cardinality(Rejections \cup {p.id})
          BY <4>2, <4>3, FS_Subset, FS_CardinalityType
        <5>2. QED
          BY <4>3, <5>1, RejectionsFinite
      <4>5. patches' \subseteq patches
        BY <2>5 DEF Patch
      <4>6. QED
        BY <4>1, <4>4, <4>5, RejectionsFinite DEF Counted, OneMailPerRejection, TypeOK
    <3>3. CASE ~(status \in Status /\ (p.to # p.from => status = p.from) /\ p.mails)
      <4>1. /\ UNCHANGED mail /\ patches' \subseteq patches
            /\ rejections' \in {rejections, rejections + 1}
        BY <2>5, <3>3 DEF Patch
      <4>2. Rejections' = Rejections
        BY <4>1 DEF Rejections
      <4>3. QED
        BY <4>1, <4>2, RejectionsFinite DEF Counted, OneMailPerRejection, TypeOK
    <3>4. QED
      BY <3>2, <3>3
  <2>6. ASSUME NEW k \in Key, Claim(k) PROVE Counted'
    <3>1. mail[k] # NoMail
      BY <2>6 DEF Claim, Active, NoMail
    <3>2. QED
      BY <2>6, <3>1, NoNewRejection DEF Claim, TypeOK
  <2>7. ASSUME NEW k \in Key, Exhaust(k) PROVE Counted'
    <3>1. mail[k] # NoMail
      BY <2>7 DEF Exhaust, NoMail
    <3>2. QED
      BY <2>7, <3>1, NoNewRejection DEF Exhaust, TypeOK
  <2>8. ASSUME NEW h \in work, HandlerStep(h) PROVE Counted'
    <3>1. Holds(h) => mail[h.key] # NoMail
      BY DEF Holds, NoMail
    <3>2. CASE Send(h)
      BY <3>2, NoNewRejection DEF Send
    <3>3. CASE Record(h)
      BY <3>1, <3>3, NoNewRejection DEF Record, TypeOK
    <3>4. CASE Retry(h)
      BY <3>1, <3>4, NoNewRejection DEF Retry, TypeOK
    <3>5. CASE Drop(h)
      BY <3>5, NoNewRejection DEF Drop
    <3>6. QED
      BY <2>8, <3>2, <3>3, <3>4, <3>5 DEF HandlerStep
  <2>9. CASE UNCHANGED vars
    BY <2>9, NoNewRejection DEF vars
  <2>10. QED
    BY <2>1, <2>2, <2>3, <2>4, <2>5, <2>6, <2>7, <2>8, <2>9 DEF Next
<1>3. Counted => OneMailPerRejection
  BY DEF Counted
<1>4. QED
  BY <1>1, <1>2, <1>3, MailTypeCorrect, PTL DEF Spec
=============================================================================
