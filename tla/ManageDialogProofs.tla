------------------------- MODULE ManageDialogProofs -------------------------
(***************************************************************************)
(* Proofs about ManageDialog: when the manager waits for what the page      *)
(* fetches, the dialog never shows two users, for any number of users,      *)
(* roles, units and requests under way, in whatever order they arrive; and  *)
(* when requests are also handled in order, the table is in the end what    *)
(* the server has, but for users about whom a request failed.               *)
(***************************************************************************)
EXTENDS ManageDialog, SequenceTheorems, TLAPS

-----------------------------------------------------------------------------
(* Queues.                                                                    *)

\* RemoveAt takes one element out and keeps the others.
LEMMA RemoveAtFacts ==
    ASSUME NEW S, NEW queue \in Seq(S), NEW i \in DOMAIN queue
    PROVE  /\ RemoveAt(queue, i) \in Seq(S)
           /\ Len(RemoveAt(queue, i)) = Len(queue) - 1
           /\ \A k \in DOMAIN RemoveAt(queue, i) :
                 \E j \in DOMAIN queue \ {i} : RemoveAt(queue, i)[k] = queue[j]
           /\ \A k, l \in DOMAIN RemoveAt(queue, i) :
                 k # l => \E j, m \in DOMAIN queue \ {i} :
                     /\ j # m
                     /\ RemoveAt(queue, i)[k] = queue[j]
                     /\ RemoveAt(queue, i)[l] = queue[m]
<1>1. i \in 1..Len(queue) /\ Len(queue) \in Nat
  OBVIOUS
<1>. DEFINE left == SubSeq(queue, 1, i - 1)
            right == SubSeq(queue, i + 1, Len(queue))
            old(k) == IF k < i THEN k ELSE k + 1
<1>2. /\ left \in Seq(S) /\ Len(left) = i - 1
      /\ \A k \in 1..(i - 1) : left[k] = queue[k]
  BY <1>1
<1>3. /\ right \in Seq(S) /\ Len(right) = Len(queue) - i
      /\ \A k \in 1..(Len(queue) - i) : right[k] = queue[k + i]
  BY <1>1
<1>4. /\ RemoveAt(queue, i) \in Seq(S)
      /\ Len(RemoveAt(queue, i)) = Len(queue) - 1
      /\ \A k \in 1..(Len(queue) - 1) : RemoveAt(queue, i)[k] = queue[old(k)]
  <2>. HIDE DEF left, right
  <2>1. /\ left \o right \in Seq(S)
        /\ Len(left \o right) = Len(queue) - 1
        /\ \A k \in 1..(Len(queue) - 1) :
              (left \o right)[k] = IF k <= i - 1 THEN left[k]
                                  ELSE right[k - (i - 1)]
    <3>1. left \in Seq(S) /\ right \in Seq(S)
      BY <1>2, <1>3
    <3>2. /\ left \o right \in Seq(S)
          /\ Len(left \o right) = Len(left) + Len(right)
          /\ \A k \in 1..(Len(left) + Len(right)) :
                (left \o right)[k] = IF k <= Len(left) THEN left[k]
                                    ELSE right[k - Len(left)]
      BY <3>1, ConcatProperties
    <3>3. Len(left) = i - 1 /\ Len(left) + Len(right) = Len(queue) - 1
      BY <1>1, <1>2, <1>3
    <3>. QED
      BY <3>2, <3>3
  <2>2. ASSUME NEW k \in 1..(Len(queue) - 1)
        PROVE  (left \o right)[k] = queue[old(k)]
    <3>1. CASE k < i
      <4>1. k \in 1..(i - 1)
        BY <1>1, <3>1
      <4>. QED
        BY <1>1, <1>2, <2>1, <3>1, <4>1
    <3>2. CASE ~(k < i)
      <4>1. k - (i - 1) \in 1..(Len(queue) - i) /\ k - (i - 1) + i = k + 1
        BY <1>1, <3>2
      <4>2. (left \o right)[k] = right[k - (i - 1)]
        BY <1>1, <2>1, <3>2
      <4>3. right[k - (i - 1)] = queue[k + 1]
        BY <1>3, <4>1
      <4>. QED
        BY <3>2, <4>2, <4>3
    <3>. QED
      BY <3>1, <3>2
  <2>3. RemoveAt(queue, i) = left \o right
    BY DEF RemoveAt, left, right
  <2>. QED
    BY <2>1, <2>2, <2>3
<1>5. DOMAIN RemoveAt(queue, i) = 1..(Len(queue) - 1)
  BY <1>1, <1>4
<1>6. \A k \in 1..(Len(queue) - 1) : old(k) \in DOMAIN queue \ {i}
  BY <1>1
<1>7. \A k, l \in 1..(Len(queue) - 1) : k # l => old(k) # old(l)
  BY <1>1
<1>. HIDE DEF old
<1>. QED
  BY <1>4, <1>5, <1>6, <1>7

\* Append adds one element and keeps the others.
LEMMA AppendFacts ==
    ASSUME NEW S, NEW queue \in Seq(S), NEW m \in S
    PROVE  /\ Append(queue, m) \in Seq(S)
           /\ Len(Append(queue, m)) = Len(queue) + 1
           /\ DOMAIN Append(queue, m) = DOMAIN queue \cup {Len(queue) + 1}
           /\ Len(queue) + 1 \notin DOMAIN queue
           /\ \A k \in DOMAIN queue : Append(queue, m)[k] = queue[k]
           /\ Append(queue, m)[Len(queue) + 1] = m
OBVIOUS

-----------------------------------------------------------------------------
(* Types.                                                                     *)

Message == Load \cup Post \cup Insert

\* What the page fetches.
IsFetch(m) == m.op \in {"load", "insert"}

LEMMA ShownType == ASSUME TypeOK PROVE Shown \in SUBSET Items
<1>1. ASSUME NEW i \in DOMAIN blocks, NEW row \in blocks[i].rows
      PROVE  row.item \in Items
  <2>1. blocks[i] \in Block
    BY DEF TypeOK
  <2>. QED
    BY <2>1 DEF Block, BlockRow
<1>. QED
  BY <1>1 DEF Shown

\* What UpdateRecord makes of a row that it finds.
LEMMA UpdateRecordType ==
    ASSUME TypeOK, dialog # Closed, NEW k \in DOMAIN table[dialog], UpdateRecord(k)
    PROVE  table' \in [Logins -> Seq(SUBSET Items)]
<1>1. dialog \in Logins /\ table[dialog] \in Seq(SUBSET Items)
  BY DEF TypeOK
<1>2. RemoveAt(table[dialog], k) \in Seq(SUBSET Items)
  BY <1>1, RemoveAtFacts
<1>3. [table[dialog] EXCEPT ![k] = Shown] \in Seq(SUBSET Items)
  BY <1>1, ShownType
<1>4. table' = [table EXCEPT ![dialog] =
                   IF Listed(Shown) THEN [table[dialog] EXCEPT ![k] = Shown]
                   ELSE RemoveAt(table[dialog], k)]
  BY DEF UpdateRecord
<1>5. (IF Listed(Shown) THEN [table[dialog] EXCEPT ![k] = Shown]
       ELSE RemoveAt(table[dialog], k)) \in Seq(SUBSET Items)
  BY <1>2, <1>3
<1>. QED
  BY <1>1, <1>4, <1>5 DEF TypeOK

LEMMA CloseDialogType ==
    ASSUME TypeOK, CloseDialog
    PROVE  dialog' = Closed /\ displayed' /\ blocks' \in Seq(Block)
<1>1. blocks \in Seq(Block) /\ Len(blocks) \in Nat
  BY DEF TypeOK
<1>2. CASE blocks = <<>>
  BY <1>2 DEF CloseDialog
<1>3. CASE blocks # <<>>
  <2>1. Len(blocks) - 1 \in Nat
    BY <1>1, <1>3
  <2>2. blocks' = [i \in 1..(Len(blocks) - 1) |->
                      [blocks[i + 1] EXCEPT !.live = FALSE]]
    BY <1>3 DEF CloseDialog
  <2>3. ASSUME NEW i \in 1..(Len(blocks) - 1)
        PROVE  [blocks[i + 1] EXCEPT !.live = FALSE] \in Block
    <3>1. blocks[i + 1] \in Block
      BY <1>1, <2>1
    <3>. QED
      BY <3>1 DEF Block
  <2>4. blocks' \in Seq(Block)
    BY <2>1, <2>2, <2>3
  <2>. QED
    BY <2>4 DEF CloseDialog
<1>. QED
  BY <1>2, <1>3

\* A closing dialog that finds no row loses one row at most, of anyone.
LEMMA CloseWithoutRowType ==
    ASSUME TypeOK, CloseWithoutRow
    PROVE  /\ table' \in [Logins -> Seq(SUBSET Items)]
           /\ doubled' = doubled
           /\ \/ CloseDialog
              \/ UNCHANGED <<dialog, displayed, blocks>>
<1>1. CASE UNCHANGED page
  BY <1>1 DEF page, TypeOK
<1>2. CASE /\ \/ UNCHANGED table
              \/ \E l \in Logins : \E k \in DOMAIN table[l] :
                    table' = [table EXCEPT ![l] = RemoveAt(table[l], k)]
           /\ CloseDialog \/ UNCHANGED <<dialog, displayed, blocks>>
           /\ UNCHANGED doubled
  <2>1. ASSUME NEW l \in Logins, NEW k \in DOMAIN table[l],
               table' = [table EXCEPT ![l] = RemoveAt(table[l], k)]
        PROVE  table' \in [Logins -> Seq(SUBSET Items)]
    <3>1. table[l] \in Seq(SUBSET Items)
      BY DEF TypeOK
    <3>2. RemoveAt(table[l], k) \in Seq(SUBSET Items)
      BY <3>1, RemoveAtFacts
    <3>. QED
      BY <2>1, <3>2 DEF TypeOK
  <2>. QED
    BY <1>2, <2>1 DEF TypeOK
<1>. QED
  BY <1>1, <1>2 DEF CloseWithoutRow

LEMMA CloseType == TypeOK /\ Close => TypeOK'
<1>. SUFFICES ASSUME TypeOK, Close
              PROVE  TypeOK'
  OBVIOUS
<1>1. /\ table' \in [Logins -> Seq(SUBSET Items)]
      /\ doubled' = doubled
      /\ CloseDialog \/ UNCHANGED <<dialog, displayed, blocks>>
  BY UpdateRecordType, CloseWithoutRowType DEF Close
<1>2. dialog' \in Logins \cup {Closed} /\ displayed' \in BOOLEAN /\ blocks' \in Seq(Block)
  BY <1>1, CloseDialogType DEF TypeOK
<1>. QED
  BY <1>1, <1>2 DEF Close, TypeOK

\* A request that is handled leaves the queue; its answer, if any, joins the other.
LEMMA HandledType ==
    ASSUME TypeOK, NEW i \in DOMAIN requests, requests' = RemoveAt(requests, i),
           NEW items \in SUBSET Items,
           \/ UNCHANGED <<failed, answers>>
           \/ Fail(requests[i])
           \/ IsFetch(requests[i]) /\ AnswerWith(requests[i], items)
    PROVE  /\ requests' \in Seq(Load \cup Post \cup Insert)
           /\ answers' \in Seq(Answer)
           /\ failed' \subseteq Logins
<1>1. requests[i] \in Load \cup Post \cup Insert
  BY DEF TypeOK
<1>2. requests[i].login \in Logins
  BY <1>1 DEF Load, Post, Insert
<1>3. requests' \in Seq(Load \cup Post \cup Insert)
  BY RemoveAtFacts DEF TypeOK
<1>4. CASE UNCHANGED <<failed, answers>>
  BY <1>3, <1>4 DEF TypeOK
<1>5. CASE Fail(requests[i])
  BY <1>2, <1>3, <1>5 DEF TypeOK, Fail
<1>6. CASE IsFetch(requests[i]) /\ AnswerWith(requests[i], items)
  <2>1. [op |-> requests[i].op, login |-> requests[i].login, items |-> items]
            \in Answer
    BY <1>2, <1>6 DEF IsFetch, Answer
  <2>. QED
    BY <1>3, <1>6, <2>1, AppendFacts DEF TypeOK, AnswerWith
<1>. QED
  BY <1>4, <1>5, <1>6

\* Spec => []TypeOK.
LEMMA TypeOKInductive == TypeOK /\ [Next]_vars => TypeOK'
<1>. SUFFICES ASSUME TypeOK, [Next]_vars
              PROVE  TypeOK'
  OBVIOUS
<1>0. Editable \subseteq Items /\ Roles \subseteq Items /\ Units \subseteq Items
  BY ItemAssumption DEF Items
<1>1. ASSUME NEW l \in Logins, ModifyUser(l)
      PROVE  TypeOK'
  <2>1. [op |-> "load", login |-> l] \in Message
    BY DEF Message, Load
  <2>. QED
    BY <1>1, <2>1, AppendFacts DEF ModifyUser, Send, TypeOK, Message
<1>2. ASSUME NEW l \in Logins, SubmitNewUser(l)
      PROVE  TypeOK'
  <2>1. PICK role \in Roles \cap Editable, unit \in Units \cap Editable :
            Send([op |-> "insert", login |-> l, items |-> {role, unit}])
    BY <1>2 DEF SubmitNewUser
  <2>2. [op |-> "insert", login |-> l, items |-> {role, unit}] \in Message
    BY <1>0 DEF Message, Insert
  <2>. QED
    BY <1>2, <2>1, <2>2, AppendFacts DEF SubmitNewUser, Send, TypeOK, Message, page
<1>3. ASSUME NEW b \in DOMAIN blocks, AddAssociation(b)
      PROVE  TypeOK'
  <2>1. PICK item \in Editable :
            /\ blocks' = [blocks EXCEPT ![1].rows =
                   @ \cup {[item |-> item, login |-> blocks[b].login,
                            fading |-> FALSE]}]
            /\ Send([op |-> "add", login |-> blocks[b].login, item |-> item])
    BY <1>3 DEF AddAssociation
  <2>2. blocks \in Seq(Block) /\ blocks[b] \in Block /\ 1 \in DOMAIN blocks
    BY DEF TypeOK
  <2>3. blocks[b].login \in Logins /\ item \in Items
    BY <1>0, <2>2 DEF Block
  <2>4. [item |-> item, login |-> blocks[b].login, fading |-> FALSE] \in BlockRow
    BY <2>3 DEF BlockRow
  <2>5. blocks' \in Seq(Block)
    <3>1. blocks[1] \in Block
      BY <2>2
    <3>2. [blocks[1] EXCEPT !.rows = @ \cup
              {[item |-> item, login |-> blocks[b].login, fading |-> FALSE]}]
              \in Block
      BY <2>4, <3>1 DEF Block
    <3>. QED
      BY <2>1, <2>2, <3>2
  <2>6. [op |-> "add", login |-> blocks[b].login, item |-> item] \in Message
    BY <2>3 DEF Message, Post
  <2>. QED
    BY <1>3, <2>1, <2>5, <2>6, AppendFacts
       DEF AddAssociation, Send, TypeOK, Message
<1>4. ASSUME NEW b \in DOMAIN blocks, RemoveAssociation(b)
      PROVE  TypeOK'
  <2>1. PICK row \in blocks[b].rows :
            /\ row.item \in Editable
            /\ blocks' = [blocks EXCEPT ![b].rows =
                   (@ \ {row}) \cup {[row EXCEPT !.fading = TRUE]}]
            /\ Send([op |-> "remove", login |-> row.login, item |-> row.item])
    BY <1>4 DEF RemoveAssociation
  <2>2. blocks \in Seq(Block) /\ blocks[b] \in Block
    BY DEF TypeOK
  <2>3. row \in BlockRow
    BY <2>1, <2>2 DEF Block
  <2>4. [row EXCEPT !.fading = TRUE] \in BlockRow
    BY <2>3 DEF BlockRow
  <2>5. [blocks[b] EXCEPT !.rows =
            (@ \ {row}) \cup {[row EXCEPT !.fading = TRUE]}] \in Block
    BY <2>2, <2>4 DEF Block
  <2>6. blocks' \in Seq(Block)
    BY <2>1, <2>2, <2>5
  <2>7. [op |-> "remove", login |-> row.login, item |-> row.item] \in Message
    BY <2>3 DEF Message, Post, BlockRow
  <2>. QED
    BY <1>4, <2>1, <2>6, <2>7, AppendFacts
       DEF RemoveAssociation, Send, TypeOK, Message
<1>5. ASSUME NEW b \in DOMAIN blocks, FadedOut(b)
      PROVE  TypeOK'
  <2>1. PICK row \in blocks[b].rows :
            blocks' = [blocks EXCEPT ![b].rows = @ \ {row}]
    BY <1>5 DEF FadedOut
  <2>2. blocks \in Seq(Block) /\ blocks[b] \in Block
    BY DEF TypeOK
  <2>3. [blocks[b] EXCEPT !.rows = @ \ {row}] \in Block
    BY <2>2 DEF Block
  <2>4. blocks' \in Seq(Block)
    BY <2>1, <2>2, <2>3
  <2>. QED
    BY <1>5, <2>4 DEF FadedOut, TypeOK
<1>6. CASE Close
  BY <1>6, CloseType
<1>7. CASE LoadUser
  <2>1. PICK i \in DOMAIN requests :
            /\ requests[i].op = "load"
            /\ requests' = RemoveAt(requests, i)
            /\ \/ AnswerWith(requests[i], server[requests[i].login])
               \/ Fail(requests[i])
    BY <1>7 DEF LoadUser, Next1
  <2>2. requests[i] \in Message
    BY DEF TypeOK, Message
  <2>3. server[requests[i].login] \in SUBSET Items /\ IsFetch(requests[i])
    BY <2>1, <2>2 DEF TypeOK, Message, Load, Post, Insert, IsFetch
  <2>4. /\ requests' \in Seq(Load \cup Post \cup Insert)
        /\ answers' \in Seq(Answer) /\ failed' \subseteq Logins
    BY <2>1, <2>3, HandledType
  <2>. QED
    BY <1>7, <2>4 DEF LoadUser, TypeOK, page
<1>8. CASE HandlePost
  <2>1. PICK i \in DOMAIN requests :
            /\ requests[i].op \in {"add", "remove"}
            /\ requests' = RemoveAt(requests, i)
            /\ \/ server' = [server EXCEPT ![requests[i].login] = Wanted(requests[i])]
               \/ UNCHANGED server
            /\ Fail(requests[i]) \/ UNCHANGED <<failed, answers>>
    BY <1>8 DEF HandlePost, Next1
  <2>2. requests[i] \in Message
    BY DEF TypeOK, Message
  <2>3. requests[i].login \in Logins /\ requests[i].item \in Items
    BY <2>1, <2>2 DEF Message, Load, Post, Insert
  <2>4. /\ requests' \in Seq(Load \cup Post \cup Insert)
        /\ answers' \in Seq(Answer) /\ failed' \subseteq Logins
    BY <2>1, HandledType
  <2>5. server' \in [Logins -> SUBSET Items]
    BY <2>1, <2>3 DEF TypeOK, Wanted
  <2>. QED
    BY <1>8, <2>4, <2>5 DEF HandlePost, TypeOK, page
<1>9. CASE InsertNewUser
  <2>1. PICK i \in DOMAIN requests :
            /\ requests[i].op = "insert"
            /\ requests' = RemoveAt(requests, i)
            /\ \/ /\ server' = [server EXCEPT ![requests[i].login] =
                         server[requests[i].login] \cup requests[i].items]
                  /\ \/ AnswerWith(requests[i],
                            server[requests[i].login] \cup requests[i].items)
                     \/ Fail(requests[i])
               \/ UNCHANGED <<server, failed, answers>>
    BY <1>9 DEF InsertNewUser, Next1
  <2>2. requests[i] \in Message
    BY DEF TypeOK, Message
  <2>3. requests[i].login \in Logins /\ requests[i].items \subseteq Items
    BY <2>1, <2>2 DEF Message, Load, Post, Insert
  <2>4. server[requests[i].login] \cup requests[i].items \in SUBSET Items
    BY <2>3 DEF TypeOK
  <2>5. /\ requests' \in Seq(Load \cup Post \cup Insert)
        /\ answers' \in Seq(Answer) /\ failed' \subseteq Logins
    BY <2>1, <2>4, HandledType DEF IsFetch
  <2>6. server' \in [Logins -> SUBSET Items]
    BY <2>1, <2>3, <2>4 DEF TypeOK
  <2>. QED
    BY <1>9, <2>5, <2>6 DEF InsertNewUser, TypeOK, page
<1>10. CASE PopulateUserInfo
  <2>1. PICK i \in DOMAIN answers :
            /\ answers' = RemoveAt(answers, i)
            /\ blocks' = Append(
                   [k \in DOMAIN blocks |-> [blocks[k] EXCEPT !.live = TRUE]],
                   [login |-> answers[i].login, live |-> TRUE,
                    rows |-> {[item |-> item, login |-> answers[i].login,
                               fading |-> FALSE] : item \in answers[i].items}])
    BY <1>10 DEF PopulateUserInfo, Next1
  <2>2. answers[i] \in Answer
    BY DEF TypeOK
  <2>3. [login |-> answers[i].login, live |-> TRUE,
         rows |-> {[item |-> item, login |-> answers[i].login,
                    fading |-> FALSE] : item \in answers[i].items}] \in Block
    <3>1. answers[i].login \in Logins /\ answers[i].items \subseteq Items
      BY <2>2 DEF Answer
    <3>2. \A item \in answers[i].items :
             [item |-> item, login |-> answers[i].login, fading |-> FALSE]
                 \in BlockRow
      BY <3>1 DEF BlockRow
    <3>3. {[item |-> item, login |-> answers[i].login, fading |-> FALSE] :
              item \in answers[i].items} \in SUBSET BlockRow
      BY <3>2
    <3>. QED
      BY <3>1, <3>3 DEF Block
  <2>4. [k \in DOMAIN blocks |-> [blocks[k] EXCEPT !.live = TRUE]] \in Seq(Block)
    <3>1. blocks \in Seq(Block)
      BY DEF TypeOK
    <3>2. ASSUME NEW k \in DOMAIN blocks
          PROVE  [blocks[k] EXCEPT !.live = TRUE] \in Block
      <4>1. blocks[k] \in Block
        BY <3>1
      <4>. QED
        BY <4>1 DEF Block
    <3>. QED
      BY <3>1, <3>2
  <2>. QED
    BY <1>10, <2>1, <2>3, <2>4, AppendFacts, RemoveAtFacts
       DEF PopulateUserInfo, TypeOK
<1>11. CASE AddNewUserSuccess
  <2>1. PICK i \in DOMAIN answers :
            /\ answers' = RemoveAt(answers, i)
            /\ \/ /\ \E k \in DOMAIN table[answers[i].login] :
                        table' = [table EXCEPT ![answers[i].login] =
                           Append(RemoveAt(table[answers[i].login], k),
                                  answers[i].items)]
                  /\ UNCHANGED doubled
               \/ /\ table' = [table EXCEPT ![answers[i].login] =
                        Append(table[answers[i].login], answers[i].items)]
                  /\ doubled' = IF table[answers[i].login] = <<>> THEN doubled
                                ELSE doubled \cup {answers[i].login}
            /\ displayed' \in BOOLEAN
    BY <1>11 DEF AddNewUserSuccess, Next1
  <2>2. answers[i] \in Answer
    BY DEF TypeOK
  <2>3. answers[i].login \in Logins /\ answers[i].items \in SUBSET Items
    BY <2>2 DEF Answer
  <2>4. answers' \in Seq(Answer)
    BY <2>1, RemoveAtFacts DEF TypeOK
  <2>5. table[answers[i].login] \in Seq(SUBSET Items)
    BY <2>3 DEF TypeOK
  <2>6. \A k \in DOMAIN table[answers[i].login] :
           Append(RemoveAt(table[answers[i].login], k), answers[i].items)
               \in Seq(SUBSET Items)
    BY <2>3, <2>5, RemoveAtFacts, AppendFacts
  <2>7. Append(table[answers[i].login], answers[i].items) \in Seq(SUBSET Items)
    BY <2>3, <2>5, AppendFacts
  <2>8. table' \in [Logins -> Seq(SUBSET Items)]
    BY <2>1, <2>6, <2>7 DEF TypeOK
  <2>9. doubled' \subseteq Logins
    BY <2>1, <2>3 DEF TypeOK
  <2>. QED
    BY <1>11, <2>1, <2>4, <2>8, <2>9 DEF AddNewUserSuccess, TypeOK
<1>12. CASE UNCHANGED vars
  BY <1>12 DEF vars, page, TypeOK
<1>. QED
  BY <1>1, <1>2, <1>3, <1>4, <1>5, <1>6, <1>7, <1>8, <1>9, <1>10, <1>11, <1>12
     DEF Next

\* The login of the dialog keeps its row.
LEMMA RowStays ==
    ASSUME TypeInv, [Next]_vars
    PROVE  /\ dialog' = Closed => displayed'
           /\ dialog' # Closed /\ displayed' => table'[dialog'] # <<>>
<1>. DEFINE Goal == /\ dialog' = Closed => displayed'
                    /\ dialog' # Closed /\ displayed' => table'[dialog'] # <<>>
<1>1. ASSUME NEW l \in Logins, ModifyUser(l)
      PROVE  Goal
  BY <1>1, ItemAssumption DEF ModifyUser
<1>2. CASE UNCHANGED <<table, dialog, displayed>>
  BY <1>2 DEF TypeInv
<1>3. CASE Close
  <2>1. dialog # Closed /\ (displayed => CloseDialog)
    BY <1>3 DEF Close
  <2>2. CASE CloseDialog
    BY <2>2 DEF CloseDialog
  <2>3. CASE ~CloseDialog
    <3>1. ~displayed /\ CloseWithoutRow
      BY <1>3, <2>1, <2>3 DEF Close
    <3>2. UNCHANGED <<dialog, displayed>>
      BY <2>3, <3>1, CloseWithoutRowType DEF TypeInv
    <3>. QED
      BY <2>1, <3>1, <3>2
  <2>. QED
    BY <2>2, <2>3
<1>4. CASE AddNewUserSuccess
  BY <1>4 DEF AddNewUserSuccess
<1>5. CASE \/ \E l \in Logins : SubmitNewUser(l)
           \/ \E b \in DOMAIN blocks :
                 AddAssociation(b) \/ RemoveAssociation(b) \/ FadedOut(b)
           \/ LoadUser \/ HandlePost \/ InsertNewUser \/ PopulateUserInfo
           \/ UNCHANGED vars
  BY <1>2, <1>5
  DEF SubmitNewUser, AddAssociation, RemoveAssociation, FadedOut, LoadUser,
      HandlePost, InsertNewUser, PopulateUserInfo, vars, page
<1>. QED
  BY <1>1, <1>3, <1>4, <1>5 DEF Next

LEMMA RowsOfType ==
    ASSUME NEW items \in SUBSET Items
    PROVE  RowsOf(items) \in Seq(SUBSET Items)
<1>. DEFINE S == SUBSET Items
<1>1. items \in S
  OBVIOUS
<1>. HIDE DEF S
<1>2. <<items>> \in Seq(S) /\ <<>> \in Seq(S)
  BY <1>1
<1>3. RowsOf(items) \in Seq(S)
  BY <1>2 DEF RowsOf
<1>. QED
  BY <1>3 DEF S

LEMMA TypeInvInitially == Init => TypeInv
<1>. SUFFICES ASSUME Init
              PROVE  TypeInv
  OBVIOUS
<1>1. \A l \in Logins : InitServer[l] \in SUBSET Items
  BY ItemAssumption
<1>2. \A l \in Logins : RowsOf(InitServer[l]) \in Seq(SUBSET Items)
  BY <1>1, RowsOfType
<1>3. table \in [Logins -> Seq(SUBSET Items)]
  BY <1>2 DEF Init
<1>. QED
  BY <1>3, ItemAssumption DEF Init, TypeInv, TypeOK

\* Every state is well typed, and the login of the dialog keeps its row unless the
\* table was drawn anew, however impatient the manager and whatever the order in
\* which requests and answers arrive.
THEOREM TypeCorrect == Spec => []TypeInv
<1>1. TypeInv /\ [Next]_vars => TypeInv'
  BY TypeOKInductive, RowStays DEF TypeInv
<1>. QED
  BY <1>1, TypeInvInitially, PTL DEF Spec

-----------------------------------------------------------------------------
(* A patient manager.                                                         *)

Fits(m) == IF dialog = Closed THEN m.op = "insert"
           ELSE m.op = "load" /\ m.login = dialog /\ blocks = <<>>

\* FetchesFit, without its local names.
LEMMA FetchesFitExpanded ==
    FetchesFit <=>
        /\ \A i, j \in DOMAIN requests :
              IsFetch(requests[i]) /\ IsFetch(requests[j]) => i = j
        /\ Len(answers) <= 1
        /\ answers # <<>> => \A i \in DOMAIN requests : ~IsFetch(requests[i])
        /\ \A i \in DOMAIN requests : IsFetch(requests[i]) => Fits(requests[i])
        /\ \A i \in DOMAIN answers : Fits(answers[i])
BY DEF FetchesFit, IsFetch, Fits

\* Of the fetches, one at most, one is taken out: that leaves none.
LEMMA TakeFacts ==
    ASSUME NEW S, NEW queue \in Seq(S), NEW i \in DOMAIN queue,
           \A j, k \in DOMAIN queue :
              IsFetch(queue[j]) /\ IsFetch(queue[k]) => j = k
    PROVE  /\ \A j, k \in DOMAIN RemoveAt(queue, i) :
                 /\ IsFetch(RemoveAt(queue, i)[j])
                 /\ IsFetch(RemoveAt(queue, i)[k])
                 => j = k
           /\ IsFetch(queue[i]) =>
                 \A k \in DOMAIN RemoveAt(queue, i) :
                    ~IsFetch(RemoveAt(queue, i)[k])
           /\ \A k \in DOMAIN RemoveAt(queue, i) :
                 \E j \in DOMAIN queue : RemoveAt(queue, i)[k] = queue[j]
<1>. DEFINE rest == RemoveAt(queue, i)
<1>1. /\ \A k \in DOMAIN rest : \E j \in DOMAIN queue \ {i} : rest[k] = queue[j]
      /\ \A k, l \in DOMAIN rest :
            k # l => \E j, m \in DOMAIN queue \ {i} :
                        /\ j # m
                        /\ rest[k] = queue[j]
                        /\ rest[l] = queue[m]
  <2>1. \A k \in DOMAIN rest : \E j \in DOMAIN queue \ {i} : rest[k] = queue[j]
    BY RemoveAtFacts
  <2>2. ASSUME NEW k \in DOMAIN rest, NEW l \in DOMAIN rest, k # l
        PROVE  \E j, m \in DOMAIN queue \ {i} :
                        /\ j # m
                        /\ rest[k] = queue[j]
                        /\ rest[l] = queue[m]
    BY <2>2, RemoveAtFacts
  <2>. QED
    BY <2>1, <2>2
<1>. HIDE DEF rest
<1>2. \A j, k \in DOMAIN rest : IsFetch(rest[j]) /\ IsFetch(rest[k]) => j = k
  BY <1>1
<1>3. IsFetch(queue[i]) => \A k \in DOMAIN rest : ~IsFetch(rest[k])
  BY <1>1
<1>. QED
  BY <1>1, <1>2, <1>3 DEF rest

\* The only answer is taken out.
LEMMA LastAnswer ==
    ASSUME TypeOK, Len(answers) <= 1, NEW i \in DOMAIN answers
    PROVE  RemoveAt(answers, i) = <<>>
<1>1. RemoveAt(answers, i) \in Seq(Answer)
      /\ Len(RemoveAt(answers, i)) = Len(answers) - 1
  BY RemoveAtFacts DEF TypeOK
<1>. HIDE DEF RemoveAt
<1>. QED
  BY <1>1 DEF TypeOK

\* A block is the only one, and the dialog is open; nothing is being fetched.
LEMMA BlockFacts ==
    ASSUME DialogInv, NEW b \in DOMAIN blocks
    PROVE  /\ dialog # Closed
           /\ b = 1 /\ Len(blocks) = 1
           /\ answers = <<>>
           /\ \A i \in DOMAIN requests : ~IsFetch(requests[i])
<1>1. blocks[b] \in Block /\ blocks \in Seq(Block) /\ blocks # <<>>
  BY DEF DialogInv, TypeInv, TypeOK
<1>2. blocks[b].login \in Logins
  BY <1>1 DEF Block
<1>3. dialog # Closed
  BY <1>2, ItemAssumption DEF DialogInv, OneUserPerDialog
<1>4. Len(blocks) <= 1
  BY DEF DialogInv, OneUserPerDialog
<1>5. b = 1 /\ Len(blocks) = 1
  <2>. DEFINE n == Len(blocks)
  <2>1. b \in 1..n /\ n \in Nat
    BY <1>1
  <2>2. n <= 1
    BY <1>4
  <2>. HIDE DEF n
  <2>3. b = 1 /\ n = 1
    BY <2>1, <2>2
  <2>. QED
    BY <2>3 DEF n
<1>6. \A i \in DOMAIN requests : ~IsFetch(requests[i])
  BY <1>1, <1>3, FetchesFitExpanded DEF DialogInv, Fits
<1>7. DOMAIN answers = {}
  BY <1>1, <1>3, FetchesFitExpanded DEF DialogInv, Fits
<1>8. answers = <<>>
  BY <1>7 DEF DialogInv, TypeInv, TypeOK
<1>. QED
  BY <1>3, <1>5, <1>6, <1>8

\* The rows of that block are of the dialog's login.
LEMMA BlockRows ==
    ASSUME DialogInv, NEW b \in DOMAIN blocks
    PROVE  /\ DOMAIN blocks = {1}
           /\ blocks[1] \in Block /\ blocks[1].login = dialog
           /\ \A row \in blocks[1].rows : row \in BlockRow /\ row.login = dialog
<1>1. OneUserPerDialog /\ blocks \in Seq(Block)
  BY DEF DialogInv, TypeInv, TypeOK
<1>2. Len(blocks) = 1
  BY BlockFacts
<1>3. DOMAIN blocks = {1} /\ blocks[1] \in Block
  BY <1>1, <1>2
<1>4. blocks[1].login = dialog /\ \A row \in blocks[1].rows : row.login = dialog
  BY <1>1, <1>3 DEF OneUserPerDialog
<1>5. \A row \in blocks[1].rows : row \in BlockRow
  BY <1>3 DEF Block
<1>. QED
  BY <1>3, <1>4, <1>5

\* A patient manager acts on the table when nothing is open or being fetched.
LEMMA IdleFacts ==
    ASSUME DialogInv, ~Fetching, dialog = Closed
    PROVE  /\ blocks = <<>> /\ answers = <<>>
           /\ \A i \in DOMAIN requests : ~IsFetch(requests[i])
<1>1. DOMAIN blocks = {}
  BY BlockFacts
<1>2. blocks = <<>>
  BY <1>1 DEF DialogInv, TypeInv, TypeOK
<1>. QED
  BY <1>2 DEF Fetching, IsFetch

\* A post is sent while nothing is being fetched.
LEMMA PostSent ==
    ASSUME DialogInv, NEW m \in Message, ~IsFetch(m),
           \A i \in DOMAIN requests : ~IsFetch(requests[i]),
           requests' = Append(requests, m), answers = <<>>, answers' = answers
    PROVE  FetchesFit'
<1>1. requests \in Seq(Message)
  BY DEF DialogInv, TypeInv, TypeOK, Message
<1>2. \A i \in DOMAIN requests' : ~IsFetch(requests'[i])
  BY <1>1, AppendFacts
<1>. QED
  BY <1>2 DEF FetchesFit, IsFetch

\* A fetch is sent while nothing else is being fetched.
LEMMA FetchSent ==
    ASSUME DialogInv, NEW m \in Message, Fits(m)',
           \A i \in DOMAIN requests : ~IsFetch(requests[i]),
           requests' = Append(requests, m), answers = <<>>, answers' = answers
    PROVE  FetchesFit'
<1>1. requests \in Seq(Message)
  BY DEF DialogInv, TypeInv, TypeOK, Message
<1>2. /\ DOMAIN requests' = DOMAIN requests \cup {Len(requests) + 1}
      /\ \A i \in DOMAIN requests : ~IsFetch(requests'[i])
      /\ requests'[Len(requests) + 1] = m
  BY <1>1, AppendFacts
<1>. QED
  BY <1>2 DEF FetchesFit, IsFetch, Fits

\* A fetch is handled: its answer is all that is being fetched.
LEMMA FetchHandled ==
    ASSUME DialogInv, NEW i \in DOMAIN requests, NEW a \in Answer,
           IsFetch(requests[i]), a.op = requests[i].op,
           a.login = requests[i].login,
           requests' = RemoveAt(requests, i), answers' = Append(answers, a),
           UNCHANGED <<dialog, blocks>>
    PROVE  FetchesFit'
<1>1. requests \in Seq(Message)
  BY DEF DialogInv, TypeInv, TypeOK, Message
<1>2. \A k \in DOMAIN requests' : ~IsFetch(requests'[k])
  BY <1>1, TakeFacts, FetchesFitExpanded DEF DialogInv
<1>3. answers = <<>>
  BY FetchesFitExpanded DEF DialogInv
<1>4. answers' = <<a>>
  BY <1>3
<1>5. Fits(a)
  BY FetchesFitExpanded DEF DialogInv, Fits
<1>. QED
  BY <1>2, <1>4, <1>5 DEF FetchesFit, IsFetch, Fits

\* A request that is no fetch, or that failed, leaves the queue without an answer.
LEMMA RequestDropped ==
    ASSUME DialogInv, NEW i \in DOMAIN requests, requests' = RemoveAt(requests, i),
           UNCHANGED <<dialog, blocks, answers>>
    PROVE  FetchesFit'
<1>1. requests \in Seq(Message)
  BY DEF DialogInv, TypeInv, TypeOK, Message
<1>2. /\ \A j, k \in DOMAIN requests' :
            IsFetch(requests'[j]) /\ IsFetch(requests'[k]) => j = k
      /\ \A k \in DOMAIN requests' :
            \E j \in DOMAIN requests : requests'[k] = requests[j]
  BY <1>1, TakeFacts, FetchesFitExpanded DEF DialogInv
<1>3. answers # <<>> => \A k \in DOMAIN requests' : ~IsFetch(requests'[k])
  BY <1>2, FetchesFitExpanded DEF DialogInv
<1>4. \A k \in DOMAIN requests' : IsFetch(requests'[k]) => Fits(requests'[k])
  BY <1>2, FetchesFitExpanded DEF DialogInv
<1>5. Len(answers) <= 1 /\ \A k \in DOMAIN answers : Fits(answers[k])
  BY FetchesFitExpanded DEF DialogInv
<1>. QED
  BY <1>2, <1>3, <1>4, <1>5 DEF FetchesFit, IsFetch, Fits

\* Nothing a patient manager does draws the table while a dialog is open.
LEMMA DisplayedStays ==
    ASSUME Patient, DialogInv, [Next]_vars
    PROVE  displayed'
<1>1. CASE UNCHANGED displayed
  BY <1>1 DEF DialogInv
<1>2. CASE Close
  <2>1. CloseDialog
    BY <1>2 DEF Close, DialogInv
  <2>. QED
    BY <2>1 DEF CloseDialog
<1>3. CASE AddNewUserSuccess
  <2>1. PICK i \in DOMAIN answers : answers[i].op = "insert"
    BY <1>3 DEF AddNewUserSuccess, Next1
  <2>2. dialog = Closed
    BY <2>1, FetchesFitExpanded DEF DialogInv, Fits
  <2>. QED
    BY <1>3, <2>2 DEF AddNewUserSuccess
<1>. QED
  BY <1>1, <1>2, <1>3
  DEF Next, ModifyUser, SubmitNewUser, AddAssociation, RemoveAssociation, FadedOut,
      LoadUser, HandlePost, InsertNewUser, PopulateUserInfo, vars, page

\* The invariant, one step per action.
LEMMA PatientStep ==
    ASSUME Patient, DialogInv, [Next]_vars
    PROVE  FetchesFit' /\ OneUserPerDialog'
<1>0. /\ requests \in Seq(Message) /\ answers \in Seq(Answer)
      /\ blocks \in Seq(Block)
  BY DEF DialogInv, TypeInv, TypeOK, Message
<1>1. ASSUME NEW l \in Logins, ModifyUser(l)
      PROVE  FetchesFit' /\ OneUserPerDialog'
  <2>1. /\ blocks = <<>> /\ answers = <<>>
        /\ \A i \in DOMAIN requests : ~IsFetch(requests[i])
    BY <1>1, IdleFacts DEF ModifyUser
  <2>. DEFINE m == [op |-> "load", login |-> l]
  <2>2. m \in Message
    BY DEF Message, Load
  <2>3. Fits(m)'
    BY <1>1, <2>1, ItemAssumption DEF ModifyUser, Fits
  <2>4. requests' = Append(requests, m) /\ answers' = answers /\ blocks' = blocks
    BY <1>1 DEF ModifyUser, Send
  <2>. HIDE DEF m
  <2>5. FetchesFit'
    BY <2>1, <2>2, <2>3, <2>4, FetchSent
  <2>. QED
    BY <2>1, <2>4, <2>5 DEF OneUserPerDialog
<1>2. ASSUME NEW l \in Logins, SubmitNewUser(l)
      PROVE  FetchesFit' /\ OneUserPerDialog'
  <2>1. /\ blocks = <<>> /\ answers = <<>>
        /\ \A i \in DOMAIN requests : ~IsFetch(requests[i])
    BY <1>2, IdleFacts DEF SubmitNewUser
  <2>2. PICK role \in Roles, unit \in Units :
            Send([op |-> "insert", login |-> l, items |-> {role, unit}])
    BY <1>2 DEF SubmitNewUser
  <2>. DEFINE m == [op |-> "insert", login |-> l, items |-> {role, unit}]
  <2>3. m \in Message
    BY DEF Message, Insert, Items
  <2>4. dialog' = Closed /\ answers' = answers /\ blocks' = blocks
    BY <1>2 DEF SubmitNewUser, page
  <2>5. Fits(m)'
    BY <2>4 DEF Fits
  <2>6. requests' = Append(requests, m)
    BY <2>2 DEF Send
  <2>. HIDE DEF m
  <2>7. FetchesFit'
    BY <2>1, <2>3, <2>4, <2>5, <2>6, FetchSent
  <2>. QED
    BY <2>1, <2>4, <2>7 DEF OneUserPerDialog
<1>3. ASSUME NEW b \in DOMAIN blocks, AddAssociation(b)
      PROVE  FetchesFit' /\ OneUserPerDialog'
  <2>1. /\ b = 1 /\ Len(blocks) = 1 /\ answers = <<>>
        /\ \A i \in DOMAIN requests : ~IsFetch(requests[i])
    BY BlockFacts
  <2>2. /\ blocks[1] \in Block /\ blocks[1].login = dialog
        /\ \A row \in blocks[1].rows : row.login = dialog
    BY BlockRows
  <2>3. PICK item \in Editable :
            /\ blocks' = [blocks EXCEPT ![1].rows =
                   @ \cup {[item |-> item, login |-> blocks[b].login,
                            fading |-> FALSE]}]
            /\ Send([op |-> "add", login |-> blocks[b].login, item |-> item])
    BY <1>3 DEF AddAssociation
  <2>4. answers' = answers /\ dialog' = dialog
    BY <1>3 DEF AddAssociation
  <2>. DEFINE m == [op |-> "add", login |-> blocks[b].login, item |-> item]
  <2>5. m \in Message /\ ~IsFetch(m)
    BY <2>1, <2>2, ItemAssumption DEF Message, Post, Block, IsFetch
  <2>6. requests' = Append(requests, m)
    BY <2>3 DEF Send
  <2>. HIDE DEF m
  <2>7. FetchesFit'
    BY <2>1, <2>4, <2>5, <2>6, PostSent
  <2>8. OneUserPerDialog'
    <3>1. Len(blocks') = 1 /\ DOMAIN blocks' = {1}
      BY <1>0, <2>1, <2>3
    <3>2. /\ blocks'[1].login = dialog
          /\ \A row \in blocks'[1].rows : row.login = dialog
      BY <1>0, <2>1, <2>2, <2>3 DEF Block
    <3>. QED
      BY <2>4, <3>1, <3>2 DEF OneUserPerDialog
  <2>. QED
    BY <2>7, <2>8
<1>4. ASSUME NEW b \in DOMAIN blocks, RemoveAssociation(b)
      PROVE  FetchesFit' /\ OneUserPerDialog'
  <2>1. /\ b = 1 /\ Len(blocks) = 1 /\ answers = <<>>
        /\ \A i \in DOMAIN requests : ~IsFetch(requests[i])
    BY BlockFacts
  <2>2. /\ blocks[1] \in Block /\ blocks[1].login = dialog
        /\ \A row \in blocks[1].rows : row.login = dialog
    BY BlockRows
  <2>3. PICK row \in blocks[b].rows :
            /\ blocks' = [blocks EXCEPT ![b].rows =
                   (@ \ {row}) \cup {[row EXCEPT !.fading = TRUE]}]
            /\ Send([op |-> "remove", login |-> row.login, item |-> row.item])
    BY <1>4 DEF RemoveAssociation
  <2>4. answers' = answers /\ dialog' = dialog
    BY <1>4 DEF RemoveAssociation
  <2>5. row \in BlockRow /\ row.login = dialog
    BY <2>1, <2>2, <2>3 DEF Block
  <2>. DEFINE m == [op |-> "remove", login |-> row.login, item |-> row.item]
  <2>6. m \in Message /\ ~IsFetch(m)
    BY <2>5 DEF Message, Post, BlockRow, IsFetch
  <2>7. requests' = Append(requests, m)
    BY <2>3 DEF Send
  <2>. HIDE DEF m
  <2>8. FetchesFit'
    BY <2>1, <2>4, <2>6, <2>7, PostSent
  <2>9. OneUserPerDialog'
    <3>1. Len(blocks') = 1 /\ DOMAIN blocks' = {1}
      BY <1>0, <2>1, <2>3
    <3>2. [row EXCEPT !.fading = TRUE].login = dialog
      BY <2>5 DEF BlockRow
    <3>3. /\ blocks'[1].login = dialog
          /\ blocks'[1].rows
               = (blocks[1].rows \ {row}) \cup {[row EXCEPT !.fading = TRUE]}
      BY <1>0, <2>1, <2>2, <2>3 DEF Block
    <3>4. \A other \in blocks'[1].rows : other.login = dialog
      BY <2>2, <3>2, <3>3
    <3>. QED
      BY <2>4, <3>1, <3>3, <3>4 DEF OneUserPerDialog
  <2>. QED
    BY <2>8, <2>9
<1>5. ASSUME NEW b \in DOMAIN blocks, FadedOut(b)
      PROVE  FetchesFit' /\ OneUserPerDialog'
  <2>1. /\ b = 1 /\ Len(blocks) = 1 /\ answers = <<>>
        /\ \A i \in DOMAIN requests : ~IsFetch(requests[i])
    BY BlockFacts
  <2>2. /\ blocks[1] \in Block /\ blocks[1].login = dialog
        /\ \A row \in blocks[1].rows : row.login = dialog
    BY BlockRows
  <2>3. PICK row \in blocks[b].rows :
            blocks' = [blocks EXCEPT ![b].rows = @ \ {row}]
    BY <1>5 DEF FadedOut
  <2>4. UNCHANGED <<dialog, requests, answers>>
    BY <1>5 DEF FadedOut
  <2>5. FetchesFit'
    BY <2>1, <2>4 DEF FetchesFit, IsFetch
  <2>6. Len(blocks') = 1 /\ DOMAIN blocks' = {1}
    BY <1>0, <2>1, <2>3
  <2>7. blocks'[1].login = dialog /\ blocks'[1].rows \subseteq blocks[1].rows
    BY <1>0, <2>1, <2>2, <2>3 DEF Block
  <2>. QED
    BY <2>2, <2>4, <2>5, <2>6, <2>7 DEF OneUserPerDialog
<1>6. CASE Close
  <2>1. answers = <<>> /\ \A i \in DOMAIN requests : ~IsFetch(requests[i])
    BY <1>6 DEF Close, Fetching, IsFetch
  <2>2. requests' = requests /\ answers' = answers
    BY <1>6 DEF Close
  <2>3. FetchesFit'
    BY <2>1, <2>2 DEF FetchesFit, IsFetch
  <2>4. CloseDialog
    BY <1>6 DEF Close, DialogInv
  <2>5. blocks' = <<>>
    <3>. DEFINE n == Len(blocks)
    <3>0. n \in Nat /\ n <= 1
      BY <1>0 DEF DialogInv, OneUserPerDialog
    <3>. HIDE DEF n
    <3>1. n = 0 \/ n = 1
      BY <3>0
    <3>2. (IF blocks = <<>> THEN 0 ELSE Len(blocks) - 1) = 0
      BY <1>0, <3>1 DEF n
    <3>. DEFINE m == IF blocks = <<>> THEN 0 ELSE Len(blocks) - 1
    <3>3. blocks' = [i \in 1..m |-> [blocks[i + 1] EXCEPT !.live = FALSE]]
      BY <2>4 DEF CloseDialog
    <3>. HIDE DEF m
    <3>4. m = 0
      BY <3>2 DEF m
    <3>5. [i \in 1..m |-> [blocks[i + 1] EXCEPT !.live = FALSE]] = <<>>
      BY <3>4
    <3>. QED
      BY <3>3, <3>5
  <2>. QED
    BY <2>3, <2>5 DEF OneUserPerDialog
<1>7. CASE LoadUser
  <2>1. PICK i \in DOMAIN requests :
            /\ requests[i].op = "load"
            /\ requests' = RemoveAt(requests, i)
            /\ \/ answers' = Append(answers,
                     [op |-> requests[i].op, login |-> requests[i].login,
                      items |-> server[requests[i].login]])
               \/ UNCHANGED answers
    BY <1>7 DEF LoadUser, Next1, AnswerWith, Fail
  <2>. DEFINE a == [op |-> requests[i].op, login |-> requests[i].login,
                    items |-> server[requests[i].login]]
  <2>2. requests[i].login \in Logins
    BY <1>0 DEF Message, Load, Post, Insert
  <2>3. a \in Answer
    BY <2>1, <2>2 DEF DialogInv, TypeInv, TypeOK, Answer
  <2>4. IsFetch(requests[i]) /\ a.op = requests[i].op /\ a.login = requests[i].login
    BY <2>1 DEF IsFetch
  <2>5. UNCHANGED <<dialog, blocks>>
    BY <1>7 DEF LoadUser, page
  <2>. HIDE DEF a
  <2>6. answers' = Append(answers, a) \/ UNCHANGED answers
    BY <2>1 DEF a
  <2>7. FetchesFit'
    BY <2>1, <2>3, <2>4, <2>5, <2>6, FetchHandled, RequestDropped
  <2>. QED
    BY <2>5, <2>7 DEF DialogInv, OneUserPerDialog
<1>8. CASE HandlePost
  <2>1. PICK i \in DOMAIN requests : requests' = RemoveAt(requests, i)
    BY <1>8 DEF HandlePost, Next1
  <2>2. UNCHANGED <<dialog, blocks, answers>>
    BY <1>8 DEF HandlePost, Fail, page
  <2>3. FetchesFit'
    BY <2>1, <2>2, RequestDropped
  <2>. QED
    BY <2>2, <2>3 DEF DialogInv, OneUserPerDialog
<1>9. CASE InsertNewUser
  <2>1. PICK i \in DOMAIN requests :
            /\ requests[i].op = "insert"
            /\ requests' = RemoveAt(requests, i)
            /\ \/ answers' = Append(answers,
                     [op |-> requests[i].op, login |-> requests[i].login,
                      items |-> server[requests[i].login] \cup requests[i].items])
               \/ UNCHANGED answers
    BY <1>9 DEF InsertNewUser, Next1, AnswerWith, Fail
  <2>. DEFINE a == [op |-> requests[i].op, login |-> requests[i].login,
                    items |-> server[requests[i].login] \cup requests[i].items]
  <2>2. requests[i].login \in Logins /\ requests[i].items \subseteq Items
    BY <1>0, <2>1 DEF Message, Load, Post, Insert
  <2>3. a \in Answer
    BY <2>1, <2>2 DEF DialogInv, TypeInv, TypeOK, Answer
  <2>4. IsFetch(requests[i]) /\ a.op = requests[i].op /\ a.login = requests[i].login
    BY <2>1 DEF IsFetch
  <2>5. UNCHANGED <<dialog, blocks>>
    BY <1>9 DEF InsertNewUser, page
  <2>. HIDE DEF a
  <2>6. answers' = Append(answers, a) \/ UNCHANGED answers
    BY <2>1 DEF a
  <2>7. FetchesFit'
    BY <2>1, <2>3, <2>4, <2>5, <2>6, FetchHandled, RequestDropped
  <2>. QED
    BY <2>5, <2>7 DEF DialogInv, OneUserPerDialog
<1>10. CASE PopulateUserInfo
  <2>1. PICK i \in DOMAIN answers :
            /\ answers[i].op = "load"
            /\ answers' = RemoveAt(answers, i)
            /\ blocks' = Append(
                   [k \in DOMAIN blocks |-> [blocks[k] EXCEPT !.live = TRUE]],
                   [login |-> answers[i].login, live |-> TRUE,
                    rows |-> {[item |-> item, login |-> answers[i].login,
                               fading |-> FALSE] : item \in answers[i].items}])
    BY <1>10 DEF PopulateUserInfo, Next1
  <2>2. dialog # Closed /\ answers[i].login = dialog /\ blocks = <<>>
    BY <2>1, FetchesFitExpanded DEF DialogInv, Fits
  <2>3. answers' = <<>>
    BY <2>1, LastAnswer, FetchesFitExpanded DEF DialogInv, TypeInv
  <2>4. \A k \in DOMAIN requests : ~IsFetch(requests[k])
    BY <1>0, <2>1, FetchesFitExpanded DEF DialogInv
  <2>5. requests' = requests /\ dialog' = dialog
    BY <1>10 DEF PopulateUserInfo
  <2>6. FetchesFit'
    BY <2>3, <2>4, <2>5 DEF FetchesFit, IsFetch
  <2>. DEFINE block == [login |-> answers[i].login, live |-> TRUE,
                        rows |-> {[item |-> item, login |-> answers[i].login,
                                   fading |-> FALSE] : item \in answers[i].items}]
  <2>7. block.login = dialog /\ \A row \in block.rows : row.login = dialog
    BY <2>2
  <2>. HIDE DEF block
  <2>8. blocks' = <<block>>
    <3>1. [k \in DOMAIN blocks |-> [blocks[k] EXCEPT !.live = TRUE]] = <<>>
      BY <2>2
    <3>2. blocks' = Append(<<>>, block)
      BY <2>1, <3>1, Zenon DEF block
    <3>. QED
      BY <3>2
  <2>. QED
    BY <2>5, <2>6, <2>7, <2>8 DEF OneUserPerDialog
<1>11. CASE AddNewUserSuccess
  <2>1. PICK i \in DOMAIN answers :
            answers[i].op = "insert" /\ answers' = RemoveAt(answers, i)
    BY <1>11 DEF AddNewUserSuccess, Next1
  <2>2. answers' = <<>>
    BY <2>1, LastAnswer, FetchesFitExpanded DEF DialogInv, TypeInv
  <2>3. \A k \in DOMAIN requests : ~IsFetch(requests[k])
    BY <1>0, <2>1, FetchesFitExpanded DEF DialogInv
  <2>4. UNCHANGED <<requests, dialog, blocks>>
    BY <1>11 DEF AddNewUserSuccess
  <2>5. FetchesFit'
    BY <2>2, <2>3, <2>4 DEF FetchesFit, IsFetch
  <2>. QED
    BY <2>4, <2>5 DEF DialogInv, OneUserPerDialog
<1>12. CASE UNCHANGED vars
  BY <1>12 DEF vars, page, DialogInv, FetchesFit, OneUserPerDialog
<1>. QED
  BY <1>1, <1>2, <1>3, <1>4, <1>5, <1>6, <1>7, <1>8, <1>9, <1>10, <1>11, <1>12
     DEF Next

\* When the manager waits for what the page fetches, the page fetches one thing
\* at a time and the dialog gets the block it was opened for and no other,
\* although posts of earlier dialogs may still be under way and may be handled
\* in any order.
THEOREM DialogHolds == ASSUME Patient PROVE Spec => []DialogInv
<1>1. Init => DialogInv
  BY TypeInvInitially DEF Init, DialogInv, FetchesFit, OneUserPerDialog
<1>2. DialogInv /\ [Next]_vars => DialogInv'
  BY TypeOKInductive, RowStays, DisplayedStays, PatientStep DEF DialogInv, TypeInv
<1>. QED
  BY <1>1, <1>2, PTL DEF Spec

\* The dialog never shows two users, or one user twice, to a patient manager.
THEOREM OneUserPerDialogHolds == ASSUME Patient PROVE Spec => []OneUserPerDialog
<1>1. DialogInv => OneUserPerDialog
  BY DEF DialogInv
<1>. QED
  BY <1>1, DialogHolds, PTL


-----------------------------------------------------------------------------
(* Rows of the table.                                                         *)

\* The head of a queue is taken out: the others move up.
LEMMA HeadTaken ==
    ASSUME NEW S, NEW queue \in Seq(S), 1 \in DOMAIN queue
    PROVE  /\ DOMAIN RemoveAt(queue, 1) = 1..(Len(queue) - 1)
           /\ \A k \in 1..(Len(queue) - 1) :
                 k + 1 \in DOMAIN queue /\ RemoveAt(queue, 1)[k] = queue[k + 1]
           /\ \A k \in DOMAIN queue : k # 1 =>
                 /\ k - 1 \in DOMAIN RemoveAt(queue, 1)
                 /\ RemoveAt(queue, 1)[k - 1] = queue[k]
<1>. DEFINE n == Len(queue)
            right == SubSeq(queue, 2, n)
<1>1. n \in Nat /\ n >= 1 /\ DOMAIN queue = 1..n
  OBVIOUS
<1>2. /\ right \in Seq(S) /\ Len(right) = n - 1
      /\ \A k \in 1..(n - 1) : right[k] = queue[k + 1]
  BY <1>1
<1>3. RemoveAt(queue, 1) = right
  <2>1. SubSeq(queue, 1, 0) = <<>>
    OBVIOUS
  <2>2. RemoveAt(queue, 1) = <<>> \o right
    BY <2>1 DEF RemoveAt
  <2>. HIDE DEF right
  <2>. QED
    BY <1>2, <2>2
<1>. HIDE DEF n, right
<1>4. DOMAIN right = 1..(n - 1)
  BY <1>2
<1>5. \A k \in 1..(n - 1) : k + 1 \in DOMAIN queue
  BY <1>1
<1>6. \A k \in DOMAIN queue : k # 1 => k - 1 \in 1..(n - 1) /\ (k - 1) + 1 = k
  BY <1>1
<1>. QED
  BY <1>2, <1>3, <1>4, <1>5, <1>6 DEF n

\* A request that is sent is the last word on what it is about.
LEMMA SendExpected ==
    ASSUME TypeOK, NEW m \in Message, requests' = Append(requests, m),
           server' = server, NEW l \in Logins, NEW i \in Items
    PROVE  Expected(l, i)' <=>
               IF About(m, l, i) THEN m.op # "remove" ELSE Expected(l, i)
<1>. DEFINE n == Len(requests)
<1>1. /\ n \in Nat /\ DOMAIN requests = 1..n
      /\ DOMAIN requests' = 1..(n + 1)
      /\ \A k \in 1..n : requests'[k] = requests[k]
      /\ requests'[n + 1] = m
  BY AppendFacts DEF TypeOK, Message
<1>. HIDE DEF n
<1>. DEFINE A(k) == About(requests[k], l, i)
            B(k) == About(requests'[k], l, i)
            R(k) == requests[k].op = "remove"
            Q(k) == requests'[k].op = "remove"
<1>2. Expected(l, i) <=>
        \/ \E k \in 1..n : A(k) /\ ~R(k) /\ \A j \in 1..n : j > k => ~A(j)
        \/ i \in server[l] /\ \A k \in 1..n : ~A(k)
  BY <1>1 DEF Expected
<1>3. Expected(l, i)' <=>
        \/ \E k \in 1..(n + 1) :
              B(k) /\ ~Q(k) /\ \A j \in 1..(n + 1) : j > k => ~B(j)
        \/ i \in server[l] /\ \A k \in 1..(n + 1) : ~B(k)
  BY <1>1 DEF Expected, About
<1>4. /\ \A k \in 1..n : (B(k) <=> A(k)) /\ (Q(k) <=> R(k))
      /\ B(n + 1) <=> About(m, l, i)
      /\ Q(n + 1) <=> m.op = "remove"
  BY <1>1
<1>. HIDE DEF A, B, R, Q
<1>5. CASE About(m, l, i)
  <2>1. B(n + 1) /\ (Q(n + 1) <=> m.op = "remove")
    BY <1>4, <1>5
  <2>2. \A j \in 1..(n + 1) : ~(j > n + 1)
    BY <1>1
  <2>3. \A k \in 1..(n + 1) : k = n + 1 \/ n + 1 > k
    BY <1>1
  <2>4. n + 1 \in 1..(n + 1)
    BY <1>1
  <2>. QED
    BY <1>3, <1>5, <2>1, <2>2, <2>3, <2>4
<1>6. CASE ~About(m, l, i)
  <2>1. ~B(n + 1)
    BY <1>4, <1>6
  <2>2. \A k \in 1..(n + 1) : k # n + 1 => k \in 1..n
    BY <1>1
  <2>3. \A k \in 1..n : k \in 1..(n + 1)
    BY <1>1
  <2>. QED
    BY <1>2, <1>3, <1>4, <1>6, <2>1, <2>2, <2>3
<1>. QED
  BY <1>5, <1>6

\* Handling the request at the head makes what was expected of it true.
LEMMA HeadExpected ==
    ASSUME TypeOK, 1 \in DOMAIN requests, requests' = RemoveAt(requests, 1),
           NEW l \in Logins, NEW i \in Items,
           i \in server'[l] <=>
               IF About(requests[1], l, i) THEN requests[1].op # "remove"
               ELSE i \in server[l]
    PROVE  Expected(l, i)' <=> Expected(l, i)
<1>. DEFINE n == Len(requests)
<1>0. requests \in Seq(Message)
  BY DEF TypeOK, Message
<1>1. /\ n \in Nat /\ n >= 1 /\ DOMAIN requests = 1..n
      /\ DOMAIN requests' = 1..(n - 1)
      /\ \A k \in 1..(n - 1) : requests'[k] = requests[k + 1]
  BY <1>0, HeadTaken
<1>. HIDE DEF n
<1>. DEFINE A(k) == About(requests[k], l, i)
            B(k) == About(requests'[k], l, i)
            R(k) == requests[k].op = "remove"
            Q(k) == requests'[k].op = "remove"
<1>2. Expected(l, i) <=>
        \/ \E k \in 1..n : A(k) /\ ~R(k) /\ \A j \in 1..n : j > k => ~A(j)
        \/ i \in server[l] /\ \A k \in 1..n : ~A(k)
  BY <1>1 DEF Expected
<1>3. Expected(l, i)' <=>
        \/ \E k \in 1..(n - 1) :
              B(k) /\ ~Q(k) /\ \A j \in 1..(n - 1) : j > k => ~B(j)
        \/ i \in server'[l] /\ \A k \in 1..(n - 1) : ~B(k)
  BY <1>1 DEF Expected, About
<1>4. \A k \in 1..(n - 1) : (B(k) <=> A(k + 1)) /\ (Q(k) <=> R(k + 1))
  BY <1>1
<1>5. i \in server'[l] <=> IF A(1) THEN ~R(1) ELSE i \in server[l]
  OBVIOUS
<1>. HIDE DEF A, B, R, Q
<1>6. \A k \in 1..n : k # 1 => k - 1 \in 1..(n - 1) /\ (k - 1) + 1 = k
  BY <1>1
<1>7. \A k \in 1..(n - 1) : k + 1 \in 1..n /\ k + 1 # 1
  BY <1>1
<1>8. 1 \in 1..n
  BY <1>1
<1>9. (\A k \in 1..(n - 1) : ~B(k)) <=> (\A k \in 1..n : k # 1 => ~A(k))
  BY <1>4, <1>6, <1>7
<1>10. (\E k \in 1..(n - 1) :
             B(k) /\ ~Q(k) /\ \A j \in 1..(n - 1) : j > k => ~B(j))
       <=> (\E k \in 1..n :
              k # 1 /\ A(k) /\ ~R(k) /\ \A j \in 1..n : j > k => ~A(j))
  <2>1. ASSUME NEW k \in 1..(n - 1), B(k), ~Q(k),
               \A j \in 1..(n - 1) : j > k => ~B(j)
        PROVE  /\ k + 1 \in 1..n /\ k + 1 # 1 /\ A(k + 1) /\ ~R(k + 1)
               /\ \A j \in 1..n : j > k + 1 => ~A(j)
    <3>1. ASSUME NEW j \in 1..n, j > k + 1
          PROVE  ~A(j)
      <4>1. j - 1 \in 1..(n - 1) /\ j - 1 > k /\ (j - 1) + 1 = j
        BY <1>1, <3>1
      <4>. QED
        BY <1>4, <2>1, <4>1
    <3>. QED
      BY <1>4, <1>7, <2>1, <3>1
  <2>2. ASSUME NEW k \in 1..n, k # 1, A(k), ~R(k),
               \A j \in 1..n : j > k => ~A(j)
        PROVE  /\ k - 1 \in 1..(n - 1) /\ B(k - 1) /\ ~Q(k - 1)
               /\ \A j \in 1..(n - 1) : j > k - 1 => ~B(j)
    <3>1. k - 1 \in 1..(n - 1) /\ (k - 1) + 1 = k
      BY <1>6, <2>2
    <3>2. ASSUME NEW j \in 1..(n - 1), j > k - 1
          PROVE  ~B(j)
      <4>1. j + 1 \in 1..n /\ j + 1 > k
        BY <1>1, <3>2
      <4>. QED
        BY <1>4, <2>2, <4>1
    <3>. QED
      BY <1>4, <2>2, <3>1, <3>2
  <2>. QED
    BY <2>1, <2>2
<1>11. (\E k \in 1..n : A(k) /\ ~R(k) /\ \A j \in 1..n : j > k => ~A(j))
       <=> \/ \E k \in 1..n :
                k # 1 /\ A(k) /\ ~R(k) /\ \A j \in 1..n : j > k => ~A(j)
           \/ A(1) /\ ~R(1) /\ \A k \in 1..n : k # 1 => ~A(k)
  <2>1. \A k \in 1..n : k > 1 <=> k # 1
    BY <1>1
  <2>. QED
    BY <1>8, <2>1
<1>. QED
  BY <1>2, <1>3, <1>5, <1>8, <1>9, <1>10, <1>11

\* What is expected does not change, so neither does what the rows owe it.
LEMMA SameExpected ==
    ASSUME PageInv, NEW l \in Logins,
           \A i \in Items : Expected(l, i)' <=> Expected(l, i)
    PROVE  Will(l)' = Will(l)
BY DEF Will

\* A step that leaves the table alone: the rows it must account for are those that
\* nothing was about to write, and nothing else is expected of them.
LEMMA RowsKept ==
    ASSUME PageInv, UNCHANGED <<table, doubled>>,
           \A l \in Logins \ failed' : l # dialog' /\ ~Arriving(l)' =>
               /\ l \notin failed /\ l # dialog /\ ~Arriving(l)
               /\ \A i \in Items : Expected(l, i)' <=> Expected(l, i)
    PROVE  RowsAreExpected'
<1>1. ASSUME NEW l \in Logins \ failed', l # dialog', ~Arriving(l)'
      PROVE  RowsSay(l, Will(l))'
  <2>1. /\ l \notin failed /\ l # dialog /\ ~Arriving(l)
        /\ \A i \in Items : Expected(l, i)' <=> Expected(l, i)
    BY <1>1
  <2>2. RowsSay(l, Will(l))
    BY <2>1 DEF PageInv, RowsAreExpected
  <2>3. Will(l)' = Will(l)
    BY <2>1, SameExpected
  <2>. QED
    BY <2>2, <2>3 DEF RowsSay, RowsOf, Listed
<1>2. \A l \in Logins \ doubled' : Len(table'[l]) <= 1
  BY DEF PageInv, RowsAreExpected
<1>. QED
  BY <1>1, <1>2 DEF RowsAreExpected

\* Requests are handled in order: the one handled is the first.  A fetch that is
\* handled was the only request, and leaves none.
LEMMA HeadFacts ==
    ASSUME InOrder, PageInv, NEW i \in Next1(requests)
    PROVE  /\ i = 1 /\ 1 \in DOMAIN requests
           /\ answers = <<>>
           /\ requests[1] \in Message
           /\ IsFetch(requests[1]) =>
                 DOMAIN requests = {1} /\ RemoveAt(requests, 1) = <<>>
<1>1. i = 1 /\ 1 \in DOMAIN requests
  BY DEF Next1
<1>2. requests \in Seq(Message)
  BY DEF PageInv, DialogInv, TypeInv, TypeOK, Message
<1>3. answers = <<>>
  BY <1>1 DEF PageInv, FetchesComeLast
<1>4. ASSUME IsFetch(requests[1])
      PROVE  DOMAIN requests = {1} /\ RemoveAt(requests, 1) = <<>>
  <2>. DEFINE n == Len(requests)
  <2>1. n \in Nat /\ DOMAIN requests = 1..n
    BY <1>2
  <2>2. \A j \in DOMAIN requests : j <= 1
    BY <1>1, <1>4 DEF PageInv, FetchesComeLast, IsFetch
  <2>3. DOMAIN RemoveAt(requests, 1) = 1..(n - 1)
    BY <1>1, <1>2, HeadTaken
  <2>4. RemoveAt(requests, 1) \in Seq(Message)
    BY <1>1, <1>2, RemoveAtFacts
  <2>. HIDE DEF n
  <2>5. n = 1
    BY <1>1, <2>1, <2>2
  <2>. DEFINE rest == RemoveAt(requests, 1)
  <2>6. DOMAIN rest = {} /\ rest \in Seq(Message)
    BY <2>3, <2>4, <2>5
  <2>. HIDE DEF rest
  <2>7. rest = <<>>
    BY <2>6
  <2>. QED
    BY <2>1, <2>5, <2>7 DEF rest
<1>. QED
  BY <1>1, <1>2, <1>3, <1>4

\* A request is sent while the page fetches nothing.
LEMMA SendFacts ==
    ASSUME PageInv, ~Fetching, NEW m \in Message,
           requests' = Append(requests, m), UNCHANGED <<server, answers>>,
           m.op = "insert" => Listed(m.items)
    PROVE  /\ \A i, j \in DOMAIN requests' :
                 requests'[i].op \in {"load", "insert"} => j <= i
           /\ answers' = <<>>
           /\ \A k \in DOMAIN requests' : requests'[k].op = "insert" =>
                 Listed(requests'[k].items)
           /\ \A l \in Logins : ~Arriving(l) /\ ~Arriving(l)'
           /\ IsFetch(m) => Fetching'
<1>. DEFINE n == Len(requests)
<1>1. /\ n \in Nat /\ DOMAIN requests = 1..n
      /\ DOMAIN requests' = 1..(n + 1)
      /\ \A k \in 1..n : requests'[k] = requests[k]
      /\ requests'[n + 1] = m
  BY AppendFacts DEF PageInv, DialogInv, TypeInv, TypeOK, Message
<1>. HIDE DEF n
<1>2. answers = <<>> /\ \A k \in 1..n : ~IsFetch(requests[k])
  BY <1>1 DEF Fetching, IsFetch
<1>3. \A k \in 1..(n + 1) : k = n + 1 \/ (k \in 1..n /\ ~IsFetch(requests'[k]))
  BY <1>1, <1>2
<1>4. \A k \in 1..(n + 1) : k <= n + 1
  BY <1>1
<1>5. n + 1 \in 1..(n + 1)
  BY <1>1
<1>6. \A i, j \in DOMAIN requests' :
         requests'[i].op \in {"load", "insert"} => j <= i
  BY <1>1, <1>3, <1>4 DEF IsFetch
<1>7. \A k \in DOMAIN requests' : requests'[k].op = "insert" =>
         Listed(requests'[k].items)
  BY <1>1, <1>3 DEF IsFetch
<1>8. \A l \in Logins : ~Arriving(l) /\ ~Arriving(l)'
  BY <1>2 DEF Arriving
<1>9. IsFetch(m) => Fetching'
  BY <1>1, <1>5 DEF Fetching, IsFetch
<1>. QED
  BY <1>2, <1>6, <1>7, <1>8, <1>9

\* The invariant when the manager opens a dialog or adds a new user.
LEMMA FetchSentPage ==
    ASSUME Patient, PageInv, NEW l0 \in Logins,
           ModifyUser(l0) \/ SubmitNewUser(l0)
    PROVE  FetchesComeLast' /\ BlockIsExpected' /\ RowsAreExpected'
<1>1. /\ dialog = Closed /\ ~Fetching
      /\ UNCHANGED <<server, failed, table, doubled, blocks, answers>>
      /\ dialog' \in {Closed, l0}
  BY DEF ModifyUser, SubmitNewUser, page
<1>2. blocks = <<>> /\ answers = <<>>
  BY <1>1, IdleFacts DEF PageInv
<1>3. TypeOK
  BY DEF PageInv, DialogInv, TypeInv
<1>4. PICK m \in Message :
        /\ IsFetch(m)
        /\ requests' = Append(requests, m)
        /\ m.op = "insert" => Listed(m.items)
  <2>1. CASE ModifyUser(l0)
    <3>. DEFINE m == [op |-> "load", login |-> l0]
    <3>1. m \in Message /\ IsFetch(m) /\ m.op = "load"
      BY DEF Message, Load, IsFetch
    <3>2. requests' = Append(requests, m)
      BY <2>1 DEF ModifyUser, Send
    <3>. HIDE DEF m
    <3>. QED
      BY <3>1, <3>2
  <2>2. CASE SubmitNewUser(l0)
    <3>1. PICK role \in Roles \cap Editable, unit \in Units \cap Editable :
             Send([op |-> "insert", login |-> l0, items |-> {role, unit}])
      BY <2>2 DEF SubmitNewUser
    <3>. DEFINE m == [op |-> "insert", login |-> l0, items |-> {role, unit}]
    <3>2. m \in Message /\ IsFetch(m) /\ m.items = {role, unit}
      BY DEF Message, Insert, IsFetch, Items
    <3>3. requests' = Append(requests, m)
      BY <3>1 DEF Send
    <3>4. Listed({role, unit})
      BY DEF Listed
    <3>. HIDE DEF m
    <3>. QED
      BY <3>2, <3>3, <3>4
  <2>. QED
    BY <2>1, <2>2
<1>5. /\ \A i, j \in DOMAIN requests' :
            requests'[i].op \in {"load", "insert"} => j <= i
      /\ answers' = <<>>
      /\ \A k \in DOMAIN requests' : requests'[k].op = "insert" =>
            Listed(requests'[k].items)
      /\ \A l \in Logins : ~Arriving(l)
      /\ Fetching'
  BY <1>1, <1>4, SendFacts
<1>6. FetchesComeLast'
  BY <1>5 DEF FetchesComeLast, Listed
<1>7. BlockIsExpected'
  BY <1>1, <1>2 DEF BlockIsExpected
<1>8. \A l \in Logins, i \in Items : Expected(l, i)' <=> Expected(l, i)
  <2>1. \A l \in Logins, i \in Items : ~About(m, l, i)
    BY <1>4 DEF About, IsFetch
  <2>. QED
    BY <1>1, <1>3, <1>4, <2>1, SendExpected
<1>9. RowsAreExpected'
  BY <1>1, <1>5, <1>8, ItemAssumption, RowsKept
<1>. QED
  BY <1>6, <1>7, <1>9

\* A post of the dialog is sent: what it is about is expected at once, and the
\* block shows it.
LEMMA PostSentPage ==
    ASSUME PageInv, NEW m \in Message, m.op \in {"add", "remove"},
           m.login = dialog, m.item \in Items, DOMAIN blocks = {1},
           requests' = Append(requests, m),
           UNCHANGED <<server, failed, table, doubled, dialog, answers>>,
           blocks' \in Seq(Block), DOMAIN blocks' = {1},
           \A r, s \in blocks'[1].rows : r.item = s.item => r = s,
           \A i \in Items :
              (\E r \in blocks'[1].rows : r.item = i /\ ~r.fading)
                <=> IF i = m.item THEN m.op = "add"
                    ELSE \E r \in blocks[1].rows : r.item = i /\ ~r.fading
    PROVE  FetchesComeLast' /\ BlockIsExpected' /\ RowsAreExpected'
<1>1. TypeOK /\ dialog \in Logins
  BY BlockFacts DEF PageInv, DialogInv, TypeInv, TypeOK
<1>2. ~Fetching
  BY BlockFacts DEF PageInv, Fetching, IsFetch
<1>3. /\ \A i, j \in DOMAIN requests' :
            requests'[i].op \in {"load", "insert"} => j <= i
      /\ answers' = <<>>
      /\ \A k \in DOMAIN requests' : requests'[k].op = "insert" =>
            Listed(requests'[k].items)
      /\ \A l \in Logins : ~Arriving(l)
  BY <1>2, SendFacts
<1>4. \A l \in Logins, i \in Items :
         Expected(l, i)' <=> IF l = dialog /\ i = m.item THEN m.op = "add"
                             ELSE Expected(l, i)
  <2>1. ASSUME NEW l \in Logins, NEW i \in Items
        PROVE  Expected(l, i)' <=> IF l = dialog /\ i = m.item THEN m.op = "add"
                                   ELSE Expected(l, i)
    <3>1. About(m, l, i) <=> l = dialog /\ i = m.item
      BY DEF About
    <3>. QED
      BY <1>1, <3>1, SendExpected
  <2>. QED
    BY <2>1
<1>5. FetchesComeLast'
  BY <1>3 DEF FetchesComeLast, Listed
<1>6. BlockIsExpected'
  <2>1. ASSUME dialog \notin failed, NEW i \in Items
        PROVE  (\E r \in blocks'[1].rows : r.item = i /\ ~r.fading)
                   <=> Expected(dialog, i)'
    <3>1. (\E r \in blocks[1].rows : r.item = i /\ ~r.fading)
              <=> Expected(dialog, i)
      BY <2>1 DEF PageInv, BlockIsExpected
    <3>2. Expected(dialog, i)' <=> IF i = m.item THEN m.op = "add"
                                   ELSE Expected(dialog, i)
      BY <1>1, <1>4
    <3>. QED
      BY <3>1, <3>2
  <2>. QED
    BY <2>1 DEF BlockIsExpected
<1>7. RowsAreExpected'
  <2>1. ASSUME NEW l \in Logins \ failed', l # dialog', ~Arriving(l)'
        PROVE  /\ l \notin failed /\ l # dialog /\ ~Arriving(l)
               /\ \A i \in Items : Expected(l, i)' <=> Expected(l, i)
    BY <1>3, <1>4, <2>1
  <2>. QED
    BY <2>1, RowsKept
<1>. QED
  BY <1>5, <1>6, <1>7

\* The invariant when the dialog's links are clicked and a removed row has faded.
LEMMA BlockStepPage ==
    ASSUME PageInv, TypeOK', NEW b \in DOMAIN blocks,
           AddAssociation(b) \/ RemoveAssociation(b) \/ FadedOut(b)
    PROVE  FetchesComeLast' /\ BlockIsExpected' /\ RowsAreExpected'
<1>1. /\ b = 1 /\ DOMAIN blocks = {1} /\ blocks \in Seq(Block)
      /\ blocks[1] \in Block /\ blocks[1].login = dialog
      /\ \A row \in blocks[1].rows : row \in BlockRow /\ row.login = dialog
  BY BlockFacts, BlockRows DEF PageInv, DialogInv, TypeInv, TypeOK
<1>2. dialog \in Logins
  BY <1>1 DEF Block
<1>3. \A r, s \in blocks[1].rows : r.item = s.item => r = s
  BY <1>1 DEF PageInv, BlockIsExpected
<1>4. blocks' \in Seq(Block)
  BY DEF TypeOK
<1>5. CASE AddAssociation(b)
  <2>1. PICK item \in Editable :
            /\ \A row \in blocks[1].rows : row.item # item
            /\ blocks' = [blocks EXCEPT ![1].rows =
                   @ \cup {[item |-> item, login |-> blocks[b].login,
                            fading |-> FALSE]}]
            /\ Send([op |-> "add", login |-> blocks[b].login, item |-> item])
    BY <1>5 DEF AddAssociation
  <2>. DEFINE m == [op |-> "add", login |-> dialog, item |-> item]
              new == [item |-> item, login |-> dialog, fading |-> FALSE]
  <2>2. item \in Items
    BY ItemAssumption
  <2>3. m \in Message /\ m.op = "add" /\ m.login = dialog /\ m.item = item
    BY <1>2, <2>2 DEF Message, Post
  <2>4. requests' = Append(requests, m)
    BY <1>1, <2>1 DEF Send
  <2>5. new.item = item /\ ~new.fading
    OBVIOUS
  <2>6. DOMAIN blocks' = {1} /\ blocks'[1].rows = blocks[1].rows \cup {new}
    BY <1>1, <2>1 DEF Block
  <2>7. UNCHANGED <<server, failed, table, doubled, dialog, answers>>
    BY <1>5 DEF AddAssociation
  <2>. HIDE DEF m, new
  <2>8. \A r, s \in blocks'[1].rows : r.item = s.item => r = s
    BY <1>3, <2>1, <2>5, <2>6
  <2>9. \A i \in Items :
           (\E r \in blocks'[1].rows : r.item = i /\ ~r.fading)
             <=> IF i = m.item THEN m.op = "add"
                 ELSE \E r \in blocks[1].rows : r.item = i /\ ~r.fading
    BY <2>3, <2>5, <2>6
  <2>. QED
    BY <1>1, <1>4, <2>2, <2>3, <2>4, <2>6, <2>7, <2>8, <2>9, PostSentPage
<1>6. CASE RemoveAssociation(b)
  <2>1. PICK row \in blocks[1].rows :
            /\ blocks' = [blocks EXCEPT ![1].rows =
                   (@ \ {row}) \cup {[row EXCEPT !.fading = TRUE]}]
            /\ Send([op |-> "remove", login |-> row.login, item |-> row.item])
    BY <1>1, <1>6 DEF RemoveAssociation
  <2>. DEFINE m == [op |-> "remove", login |-> row.login, item |-> row.item]
              faded == [row EXCEPT !.fading = TRUE]
  <2>2. row.item \in Items
    BY <1>1, <2>1 DEF BlockRow
  <2>3. /\ m \in Message /\ m.op = "remove" /\ m.login = dialog
        /\ m.item = row.item
    BY <1>1, <1>2, <2>1, <2>2 DEF Message, Post
  <2>4. requests' = Append(requests, m)
    BY <2>1 DEF Send
  <2>5. faded.item = row.item /\ faded.fading
    BY <1>1 DEF BlockRow
  <2>6. /\ DOMAIN blocks' = {1}
        /\ blocks'[1].rows = (blocks[1].rows \ {row}) \cup {faded}
    BY <1>1, <2>1 DEF Block
  <2>7. UNCHANGED <<server, failed, table, doubled, dialog, answers>>
    BY <1>6 DEF RemoveAssociation
  <2>. HIDE DEF m, faded
  <2>8. \A r, s \in blocks'[1].rows : r.item = s.item => r = s
    BY <1>3, <2>1, <2>5, <2>6
  <2>9. \A i \in Items :
           (\E r \in blocks'[1].rows : r.item = i /\ ~r.fading)
             <=> IF i = m.item THEN m.op = "add"
                 ELSE \E r \in blocks[1].rows : r.item = i /\ ~r.fading
    BY <1>3, <2>1, <2>3, <2>5, <2>6
  <2>. QED
    BY <1>1, <1>4, <2>2, <2>3, <2>4, <2>6, <2>7, <2>8, <2>9, PostSentPage
<1>7. CASE FadedOut(b)
  <2>1. PICK row \in blocks[1].rows :
            row.fading /\ blocks' = [blocks EXCEPT ![1].rows = @ \ {row}]
    BY <1>1, <1>7 DEF FadedOut
  <2>2. DOMAIN blocks' = {1} /\ blocks'[1].rows = blocks[1].rows \ {row}
    BY <1>1, <2>1 DEF Block
  <2>3. UNCHANGED <<server, failed, table, doubled, dialog, requests, answers>>
    BY <1>7 DEF FadedOut
  <2>4. FetchesComeLast'
    BY <2>2, <2>3 DEF PageInv, FetchesComeLast, Fetching, Listed
  <2>5. BlockIsExpected'
    <3>1. \A i \in Items :
             (\E r \in blocks'[1].rows : r.item = i /\ ~r.fading)
               <=> \E r \in blocks[1].rows : r.item = i /\ ~r.fading
      BY <2>1, <2>2
    <3>2. \A i \in Items : Expected(dialog, i)' <=> Expected(dialog, i)
      BY <2>3 DEF Expected, About
    <3>3. \A r, s \in blocks'[1].rows : r.item = s.item => r = s
      BY <1>3, <2>2
    <3>4. dialog \notin failed =>
             \A i \in Items :
                (\E r \in blocks[1].rows : r.item = i /\ ~r.fading)
                    <=> Expected(dialog, i)
      BY <1>1 DEF PageInv, BlockIsExpected
    <3>. QED
      BY <2>2, <2>3, <3>1, <3>2, <3>3, <3>4 DEF BlockIsExpected
  <2>6. RowsAreExpected'
    <3>1. ASSUME NEW l \in Logins
          PROVE  /\ Arriving(l)' <=> Arriving(l)
                 /\ \A i \in Items : Expected(l, i)' <=> Expected(l, i)
      BY <2>3 DEF Arriving, Expected, About
    <3>. QED
      BY <2>3, <3>1, RowsKept
  <2>. QED
    BY <2>4, <2>5, <2>6
<1>. QED
  BY <1>5, <1>6, <1>7

\* A list of one entry: what is left of it, and what it is with another one.
LEMMA OneEntry ==
    ASSUME NEW S, NEW rows \in Seq(S), NEW k \in DOMAIN rows, Len(rows) <= 1,
           NEW x \in S
    PROVE  RemoveAt(rows, k) = <<>> /\ [rows EXCEPT ![k] = x] = <<x>>
<1>. DEFINE n == Len(rows)
<1>1. n \in Nat /\ k \in 1..n /\ n <= 1
  OBVIOUS
<1>. HIDE DEF n
<1>2. n = 1 /\ k = 1
  BY <1>1
<1>3. Len(rows) = 1 /\ DOMAIN rows = {1}
  BY <1>2 DEF n
<1>4. RemoveAt(rows, k) = <<>>
  <2>. DEFINE rest == RemoveAt(rows, k)
  <2>1. rest \in Seq(S) /\ Len(rest) = 0
    BY <1>3, RemoveAtFacts
  <2>. HIDE DEF rest
  <2>2. rest = <<>>
    BY <2>1
  <2>. QED
    BY <2>2 DEF rest
<1>5. [rows EXCEPT ![k] = x] = <<x>>
  <2>. DEFINE other == [rows EXCEPT ![k] = x]
  <2>1. other \in Seq(S) /\ Len(other) = 1 /\ other[1] = x
    BY <1>2, <1>3
  <2>. HIDE DEF other
  <2>2. other = <<x>>
    BY <2>1
  <2>. QED
    BY <2>2 DEF other
<1>. QED
  BY <1>4, <1>5

\* The invariant when the dialog closes: unless its load or a post failed, its block
\* is there, nothing is fading, and what it shows is what the server will have.
LEMMA ClosePage ==
    ASSUME Patient, PageInv, Close, OneUserPerDialog', TypeOK'
    PROVE  FetchesComeLast' /\ BlockIsExpected' /\ RowsAreExpected'
<1>1. /\ dialog \in Logins /\ ~Fetching /\ ~Fading /\ dialog' = Closed
      /\ UNCHANGED <<server, failed, doubled, requests, answers>>
      /\ table \in [Logins -> Seq(SUBSET Items)]
      /\ Shown \in SUBSET Items
  BY ShownType
  DEF Close, CloseDialog, PageInv, DialogInv, TypeInv, TypeOK
<1>2. PICK k \in DOMAIN table[dialog] : UpdateRecord(k)
  BY DEF Close, PageInv, DialogInv
<1>3. DOMAIN blocks' = {}
  <2>1. SUFFICES ASSUME NEW b \in DOMAIN blocks'
                 PROVE  FALSE
    OBVIOUS
  <2>2. blocks'[b] \in Block /\ blocks'[b].login = Closed
    BY <1>1 DEF TypeOK, OneUserPerDialog
  <2>. QED
    BY <2>2, ItemAssumption DEF Block
<1>4. FetchesComeLast'
  <2>1. dialog' = Closed
    BY <1>1
  <2>. QED
    BY <1>1, <2>1 DEF PageInv, FetchesComeLast, Listed
<1>5. BlockIsExpected'
  BY <1>3 DEF BlockIsExpected
<1>6. ASSUME dialog \notin failed
      PROVE  Shown = Will(dialog)
  <2>1. 1 \in DOMAIN blocks
    <3>1. blocks # <<>> /\ blocks \in Seq(Block)
      BY <1>1, <1>6, ItemAssumption
      DEF PageInv, FetchesComeLast, DialogInv, TypeInv, TypeOK
    <3>. QED
      BY <3>1
  <2>2. /\ DOMAIN blocks = {1}
        /\ \A r \in blocks[1].rows : r \in BlockRow
    BY <2>1, BlockRows DEF PageInv
  <2>3. \A i : i \in Shown <=> \E r \in blocks[1].rows : r.item = i
    BY <2>2 DEF Shown
  <2>4. \A r \in blocks[1].rows : ~r.fading /\ r.item \in Items
    BY <1>1, <2>2 DEF Fading, BlockRow
  <2>5. \A i \in Items :
           (\E r \in blocks[1].rows : r.item = i /\ ~r.fading)
               <=> Expected(dialog, i)
    BY <1>6, <2>2 DEF PageInv, BlockIsExpected
  <2>6. \A i : i \in Shown <=> i \in Items /\ Expected(dialog, i)
    BY <2>3, <2>4, <2>5
  <2>. QED
    BY <2>6 DEF Will
<1>7. \A l \in Logins : Will(l)' = Will(l)
  BY <1>1 DEF Will, Expected, About
<1>8. \A l \in Logins : l # dialog => table'[l] = table[l]
  BY <1>1, <1>2 DEF UpdateRecord
<1>. DEFINE rows == table[dialog]
            after == IF Listed(Shown) THEN [rows EXCEPT ![k] = Shown]
                     ELSE RemoveAt(rows, k)
<1>9. table'[dialog] = after /\ rows \in Seq(SUBSET Items) /\ k \in DOMAIN rows
  BY <1>1, <1>2 DEF UpdateRecord
<1>10. ASSUME dialog \notin doubled
       PROVE  after = RowsOf(Shown)
  <2>1. Len(rows) <= 1
    BY <1>1, <1>10 DEF PageInv, RowsAreExpected
  <2>. HIDE DEF rows
  <2>. QED
    BY <1>1, <1>9, <2>1, OneEntry DEF RowsOf
<1>11. Listed(Shown) => \E j \in DOMAIN after : after[j] = Shown
  <2>. HIDE DEF rows
  <2>. QED
    BY <1>9
<1>. HIDE DEF rows, after
<1>12. RowsAreExpected'
  <2>1. ASSUME NEW l \in Logins \ doubled'
        PROVE  Len(table'[l]) <= 1
    <3>1. CASE l = dialog
      <4>1. table'[l] = RowsOf(Shown)
        BY <1>1, <1>9, <1>10, <2>1, <3>1
      <4>. QED
        BY <4>1 DEF RowsOf
    <3>2. CASE l # dialog
      BY <1>1, <1>8, <2>1, <3>2 DEF PageInv, RowsAreExpected
    <3>. QED
      BY <3>1, <3>2
  <2>2. ASSUME NEW l \in Logins \ failed', ~Arriving(l)'
        PROVE  RowsSay(l, Will(l))'
    <3>1. CASE l = dialog
      <4>1. Will(l)' = Shown /\ table'[l] = after
        BY <1>1, <1>6, <1>7, <1>9, <2>2, <3>1
      <4>2. l \notin doubled' => after = RowsOf(Shown)
        BY <1>1, <1>10, <3>1
      <4>. QED
        BY <1>11, <4>1, <4>2 DEF RowsSay, RowsOf, Listed
    <3>2. CASE l # dialog
      <4>1. ~Arriving(l)
        BY <1>1, <2>2 DEF Arriving
      <4>2. RowsSay(l, Will(l))
        BY <1>1, <2>2, <3>2, <4>1 DEF PageInv, RowsAreExpected
      <4>3. Will(l)' = Will(l) /\ table'[l] = table[l]
        BY <1>7, <1>8, <3>2
      <4>. QED
        BY <1>1, <4>2, <4>3 DEF RowsSay, RowsOf, Listed
    <3>. QED
      BY <3>1, <3>2
  <2>. QED
    BY <2>1, <2>2 DEF RowsAreExpected
<1>. QED
  BY <1>4, <1>5, <1>12

\* The block of the dialog when the step is the server's.
LEMMA BlockKept ==
    ASSUME PageInv, failed \subseteq failed', UNCHANGED <<dialog, blocks>>,
           dialog \notin failed' =>
               \A i \in Items : Expected(dialog, i)' <=> Expected(dialog, i)
    PROVE  BlockIsExpected'
BY DEF PageInv, BlockIsExpected

\* The invariant when a fetch is handled: its answer is all there is, or its login
\* is from now on one whose request failed, or nothing has happened.
LEMMA FetchHandledPage ==
    ASSUME InOrder, PageInv, TypeOK', LoadUser \/ InsertNewUser
    PROVE  FetchesComeLast' /\ BlockIsExpected' /\ RowsAreExpected'
<1>0. /\ UNCHANGED <<table, doubled, dialog, blocks>> /\ TypeOK
      /\ server \in [Logins -> SUBSET Items] /\ failed \subseteq Logins
  BY DEF LoadUser, InsertNewUser, page, PageInv, DialogInv, TypeInv, TypeOK
<1>. DEFINE m == requests[1]
            have == IF m.op = "insert" THEN server[m.login] \cup m.items
                    ELSE server[m.login]
            a == [op |-> m.op, login |-> m.login, items |-> have]
            Done == server' = [server EXCEPT ![m.login] = have]
            Answered == Done /\ answers' = Append(answers, a)
                             /\ failed' = failed \ {m.login}
            Lost == Done /\ UNCHANGED answers /\ failed' = failed \cup {m.login}
            Dropped == m.op = "insert" /\ UNCHANGED <<server, failed, answers>>
<1>1. /\ m.op \in {"load", "insert"}
      /\ Next1(requests) # {}
      /\ requests' = RemoveAt(requests, 1)
      /\ Answered \/ Lost \/ Dropped
  <2>1. CASE LoadUser
    <3>1. PICK i \in Next1(requests) :
             /\ requests[i].op = "load"
             /\ requests' = RemoveAt(requests, i)
             /\ \/ /\ failed' = failed \ {requests[i].login}
                   /\ answers' = Append(answers,
                         [op |-> requests[i].op, login |-> requests[i].login,
                          items |-> server[requests[i].login]])
                \/ /\ failed' = failed \cup {requests[i].login}
                   /\ UNCHANGED answers
             /\ server' = server
      BY <2>1 DEF LoadUser, AnswerWith, Fail
    <3>2. i = 1
      BY <3>1, HeadFacts
    <3>3. server = [server EXCEPT ![m.login] = server[m.login]]
      BY <1>0
    <3>. QED
      BY <3>1, <3>2, <3>3
  <2>2. CASE InsertNewUser
    <3>1. PICK i \in Next1(requests) :
             /\ requests[i].op = "insert"
             /\ requests' = RemoveAt(requests, i)
             /\ \/ /\ server' = [server EXCEPT ![requests[i].login] =
                         server[requests[i].login] \cup requests[i].items]
                   /\ \/ /\ failed' = failed \ {requests[i].login}
                         /\ answers' = Append(answers,
                               [op |-> requests[i].op,
                                login |-> requests[i].login,
                                items |-> server[requests[i].login]
                                             \cup requests[i].items])
                      \/ /\ failed' = failed \cup {requests[i].login}
                         /\ UNCHANGED answers
                \/ UNCHANGED <<server, failed, answers>>
      BY <2>2 DEF InsertNewUser, AnswerWith, Fail
    <3>2. i = 1
      BY <3>1, HeadFacts
    <3>. QED
      BY <3>1, <3>2
  <2>. QED
    BY <2>1, <2>2
<1>2. /\ 1 \in DOMAIN requests /\ DOMAIN requests = {1}
      /\ requests' = <<>> /\ answers = <<>> /\ m \in Message
  BY <1>1, HeadFacts DEF IsFetch
<1>3. m.login \in Logins /\ (m.op = "insert" => m.items \subseteq Items)
  BY <1>2 DEF Message, Load, Post, Insert
<1>4. Done => server'[m.login] = have
  BY <1>0, <1>3
<1>5. /\ m.op = "load" => dialog = m.login
      /\ m.op = "insert" => dialog = Closed
  BY <1>1, <1>2, FetchesFitExpanded DEF PageInv, DialogInv, IsFetch, Fits
<1>6. \A l \in Logins : server'[l] = server[l] \/ (Done /\ m.op = "insert" /\ l = m.login)
  BY <1>0, <1>1, <1>3
<1>7. ASSUME NEW l \in Logins, server'[l] = server[l], NEW i \in Items
      PROVE  Expected(l, i)' <=> Expected(l, i)
  <2>1. ~About(m, l, i)
    BY <1>1 DEF About
  <2>. HIDE DEF m
  <2>. QED
    BY <1>0, <1>1, <1>2, <1>7, <2>1, HeadExpected DEF m
<1>8. /\ Answered => answers' = <<a>>
      /\ ~Answered => answers' = <<>>
  BY <1>1, <1>2
<1>9. FetchesComeLast'
  <2>1. CASE Answered
    <3>1. a.login = m.login /\ a.items = have /\ a.op = m.op
      OBVIOUS
    <3>2. a.items = server'[a.login]
      BY <1>4, <2>1, <3>1
    <3>3. a.op = "insert" => Listed(a.items)
      <4>1. SUFFICES ASSUME m.op = "insert"
                     PROVE  Listed(server[m.login] \cup m.items)
        OBVIOUS
      <4>2. Listed(m.items)
        BY <1>2, <4>1 DEF PageInv, FetchesComeLast
      <4>. QED
        BY <4>2 DEF Listed
    <3>. HIDE DEF a
    <3>4. DOMAIN answers' = {1} /\ answers'[1] = a /\ answers' # <<>>
      BY <1>8, <2>1
    <3>5. Fetching'
      BY <3>4 DEF Fetching
    <3>. QED
      BY <1>2, <3>2, <3>3, <3>4, <3>5 DEF FetchesComeLast, Listed
  <2>2. CASE ~Answered
    <3>1. dialog' = Closed \/ dialog' \in failed'
      BY <1>0, <1>1, <1>5, <2>2
    <3>2. answers' = <<>> /\ requests' = <<>>
      BY <1>2, <1>8, <2>2
    <3>. HIDE DEF m, have, a, Answered, Lost, Dropped, Done
    <3>. QED
      BY <3>1, <3>2 DEF FetchesComeLast
  <2>. QED
    BY <2>1, <2>2
<1>10. BlockIsExpected'
  <2>1. DOMAIN blocks = {}
    BY <1>1, <1>2, BlockFacts DEF PageInv, IsFetch
  <2>. QED
    BY <1>0, <2>1 DEF BlockIsExpected
<1>11. RowsAreExpected'
  <2>1. \A l \in Logins : ~Arriving(l)
    BY <1>2 DEF Arriving
  <2>2. ASSUME NEW l \in Logins \ failed', l # dialog', ~Arriving(l)'
        PROVE  /\ l \notin failed
               /\ \A i \in Items : Expected(l, i)' <=> Expected(l, i)
    <3>1. CASE l = m.login
      <4>1. ~Lost
        BY <2>2, <3>1
      <4>2. ~Answered
        <5>1. SUFFICES ASSUME Answered
                       PROVE  FALSE
          OBVIOUS
        <5>2. m.op = "insert"
          BY <1>0, <1>1, <1>5, <2>2, <3>1
        <5>3. a.op = "insert" /\ a.login = l
          BY <3>1, <5>2
        <5>. HIDE DEF a
        <5>4. DOMAIN answers' = {1} /\ answers'[1] = a
          BY <1>8, <5>1
        <5>. QED
          BY <2>2, <5>3, <5>4 DEF Arriving
      <4>3. UNCHANGED <<server, failed>>
        BY <1>1, <4>1, <4>2
      <4>. QED
        BY <1>7, <2>2, <4>3
    <3>2. CASE l # m.login
      <4>1. server'[l] = server[l] /\ l \notin failed
        BY <1>1, <1>6, <2>2, <3>2
      <4>. QED
        BY <1>7, <2>2, <4>1
    <3>. QED
      BY <3>1, <3>2
  <2>. HIDE DEF m, have, a, Answered, Lost, Dropped, Done
  <2>. QED
    BY <1>0, <2>1, <2>2, RowsKept
<1>. QED
  BY <1>9, <1>10, <1>11

\* The invariant when a post is handled: it does what was expected of it, or its
\* login is from now on one whose request failed.
LEMMA PostHandledPage ==
    ASSUME InOrder, PageInv, HandlePost
    PROVE  FetchesComeLast' /\ BlockIsExpected' /\ RowsAreExpected'
<1>. DEFINE m == requests[1]
            n == Len(requests)
<1>0. /\ UNCHANGED <<table, doubled, dialog, blocks, answers>> /\ TypeOK
      /\ server \in [Logins -> SUBSET Items] /\ requests \in Seq(Message)
  BY DEF HandlePost, Fail, page, PageInv, DialogInv, TypeInv, TypeOK, Message
<1>1. /\ m.op \in {"add", "remove"} /\ Next1(requests) # {}
      /\ requests' = RemoveAt(requests, 1)
      /\ \/ /\ server' = [server EXCEPT ![m.login] = Wanted(m)]
            /\ UNCHANGED failed
         \/ /\ failed' = failed \cup {m.login}
            /\ UNCHANGED server
  <2>1. PICK i \in Next1(requests) :
           /\ requests[i].op \in {"add", "remove"}
           /\ requests' = RemoveAt(requests, i)
           /\ \/ /\ server' = [server EXCEPT ![requests[i].login] =
                                   Wanted(requests[i])]
                 /\ UNCHANGED failed
              \/ /\ failed' = failed \cup {requests[i].login}
                 /\ UNCHANGED server
              \/ /\ Wanted(requests[i]) = server[requests[i].login]
                 /\ UNCHANGED <<server, failed>>
    BY DEF HandlePost, Fail
  <2>2. i = 1
    BY <2>1, HeadFacts
  <2>3. server = [server EXCEPT ![m.login] = server[m.login]]
    BY <1>0
  <2>. QED
    BY <2>1, <2>2, <2>3
<1>2. 1 \in DOMAIN requests /\ answers = <<>> /\ m \in Message
  BY <1>1, HeadFacts
<1>3. m.login \in Logins /\ m.item \in Items
  BY <1>1, <1>2 DEF Message, Load, Post, Insert
<1>4. /\ n \in Nat /\ DOMAIN requests = 1..n
      /\ DOMAIN requests' = 1..(n - 1)
      /\ \A k \in 1..(n - 1) : k + 1 \in 1..n /\ requests'[k] = requests[k + 1]
      /\ \A k \in 1..n : k # 1 =>
            k - 1 \in 1..(n - 1) /\ requests'[k - 1] = requests[k]
  BY <1>0, <1>1, <1>2, HeadTaken
<1>5. ASSUME NEW l \in Logins \ failed', NEW i \in Items
      PROVE  Expected(l, i)' <=> Expected(l, i)
  <2>1. About(m, l, i) <=> m.login = l /\ m.item = i
    BY <1>1 DEF About
  <2>2. i \in server'[l] <=> IF About(m, l, i) THEN m.op # "remove"
                             ELSE i \in server[l]
    BY <1>0, <1>1, <1>3, <2>1 DEF Wanted
  <2>. HIDE DEF m
  <2>. QED
    BY <1>0, <1>1, <1>2, <2>2, HeadExpected DEF m
<1>. HIDE DEF n
<1>6. FetchesComeLast'
  <2>1. /\ \A i, j \in 1..n : requests[i].op \in {"load", "insert"} => j <= i
        /\ \A k \in 1..n : requests[k].op = "insert" => Listed(requests[k].items)
        /\ dialog # Closed /\ blocks = <<>> => Fetching \/ dialog \in failed
    BY <1>4 DEF PageInv, FetchesComeLast
  <2>2. ASSUME NEW i \in 1..(n - 1), NEW j \in 1..(n - 1),
               requests'[i].op \in {"load", "insert"}
        PROVE  j <= i
    <3>1. i + 1 \in 1..n /\ j + 1 \in 1..n /\ requests'[i] = requests[i + 1]
      BY <1>4
    <3>2. j + 1 <= i + 1
      BY <2>1, <2>2, <3>1
    <3>. QED
      BY <1>4, <3>2
  <2>3. ASSUME NEW k \in 1..(n - 1), requests'[k].op = "insert"
        PROVE  Listed(requests'[k].items)
    <3>1. k + 1 \in 1..n /\ requests'[k] = requests[k + 1]
      BY <1>4
    <3>. QED
      BY <2>1, <2>3, <3>1
  <2>4. Fetching => Fetching'
    <3>1. \A k \in 1..n : requests[k].op \in {"load", "insert"} => k # 1
      BY <1>1
    <3>. QED
      BY <1>0, <1>4, <3>1 DEF Fetching
  <2>5. answers' = <<>> /\ DOMAIN answers' = {}
    BY <1>0, <1>2
  <2>6. \A i, j \in DOMAIN requests' :
           requests'[i].op \in {"load", "insert"} => j <= i
    BY <1>4, <2>2
  <2>7. \A k \in DOMAIN requests' : requests'[k].op = "insert" =>
           Listed(requests'[k].items)
    BY <1>4, <2>3
  <2>8. dialog' # Closed /\ blocks' = <<>> => Fetching' \/ dialog' \in failed'
    BY <1>0, <1>1, <2>1, <2>4
  <2>. QED
    BY <2>5, <2>6, <2>7, <2>8 DEF FetchesComeLast, Listed
<1>7. BlockIsExpected'
  <2>1. dialog \in Logins \ failed' =>
           \A i \in Items : Expected(dialog, i)' <=> Expected(dialog, i)
    BY <1>0, <1>5
  <2>2. dialog \notin Logins => BlockIsExpected'
    <3>1. dialog = Closed => DOMAIN blocks = {}
      BY BlockFacts DEF PageInv
    <3>. QED
      BY <1>0, <3>1 DEF BlockIsExpected, TypeOK
  <2>. QED
    BY <1>0, <1>1, <2>1, <2>2, BlockKept
<1>8. RowsAreExpected'
  <2>1. ASSUME NEW l \in Logins \ failed', l # dialog', ~Arriving(l)'
        PROVE  /\ l \notin failed /\ l # dialog /\ ~Arriving(l)
               /\ \A i \in Items : Expected(l, i)' <=> Expected(l, i)
    BY <1>0, <1>1, <1>5, <2>1 DEF Arriving
  <2>. HIDE DEF m
  <2>. QED
    BY <1>0, <2>1, RowsKept
<1>. QED
  BY <1>6, <1>7, <1>8

\* When an answer arrives, it is the only one, nothing else is under way, and it
\* brings what the server has, which is all that is expected.
LEMMA AnswerFacts ==
    ASSUME PageInv, NEW i \in DOMAIN answers, answers' = RemoveAt(answers, i),
           UNCHANGED <<server, requests>>
    PROVE  /\ answers[i].login \in Logins /\ answers[i].items \subseteq Items
           /\ answers[i].items = server[answers[i].login]
           /\ Fits(answers[i])
           /\ requests = <<>> /\ answers' = <<>> /\ DOMAIN answers = {i}
           /\ \A l \in Logins, x \in Items : Expected(l, x) <=> x \in server[l]
           /\ \A l \in Logins, x \in Items : Expected(l, x)' <=> Expected(l, x)
           /\ \A l \in Logins : ~Arriving(l)'
<1>1. TypeOK /\ answers \in Seq(Answer)
  BY DEF PageInv, DialogInv, TypeInv, TypeOK
<1>2. answers[i].login \in Logins /\ answers[i].items \subseteq Items
  <2>. DEFINE a == answers[i]
  <2>1. a \in Answer
    BY <1>1
  <2>. HIDE DEF a
  <2>2. a.login \in Logins /\ a.items \subseteq Items
    BY <2>1 DEF Answer
  <2>. QED
    BY <2>2 DEF a
<1>3. requests = <<>> /\ DOMAIN requests = {} /\ DOMAIN requests' = {}
  BY DEF PageInv, FetchesComeLast
<1>4. answers[i].items = server[answers[i].login]
  BY DEF PageInv, FetchesComeLast
<1>5. answers' = <<>> /\ DOMAIN answers = {i}
  <2>. DEFINE n == Len(answers)
  <2>1. n \in Nat /\ DOMAIN answers = 1..n
    BY <1>1
  <2>2. n <= 1
    BY FetchesFitExpanded DEF PageInv, DialogInv
  <2>3. answers' = <<>>
    BY <1>1, <2>2, LastAnswer
  <2>. HIDE DEF n
  <2>. QED
    BY <2>1, <2>2, <2>3
<1>6. \A l \in Logins, x \in Items : Expected(l, x) <=> x \in server[l]
  BY <1>3 DEF Expected
<1>7. \A l \in Logins, x \in Items : Expected(l, x)' <=> Expected(l, x)
  BY <1>3 DEF Expected
<1>8. Fits(answers[i])
  BY FetchesFitExpanded DEF PageInv, DialogInv
<1>9. \A l \in Logins : ~Arriving(l)'
  BY <1>5 DEF Arriving
<1>. QED
  BY <1>2, <1>3, <1>4, <1>5, <1>6, <1>7, <1>8, <1>9

\* The invariant when the open dialog gets its block.
LEMMA BlockArrivesPage ==
    ASSUME PageInv, PopulateUserInfo
    PROVE  FetchesComeLast' /\ BlockIsExpected' /\ RowsAreExpected'
<1>1. UNCHANGED <<server, failed, table, doubled, dialog, requests>>
  BY DEF PopulateUserInfo
<1>2. PICK i \in DOMAIN answers :
         /\ answers[i].op = "load"
         /\ answers' = RemoveAt(answers, i)
         /\ blocks' = Append(
               [k \in DOMAIN blocks |-> [blocks[k] EXCEPT !.live = TRUE]],
               [login |-> answers[i].login, live |-> TRUE,
                rows |-> {[item |-> item, login |-> answers[i].login,
                           fading |-> FALSE] : item \in answers[i].items}])
  BY DEF PopulateUserInfo, Next1
<1>. DEFINE a == answers[i]
<1>3. /\ a.login \in Logins /\ a.items \subseteq Items
      /\ a.items = server[a.login]
      /\ Fits(a)
      /\ requests = <<>> /\ answers' = <<>> /\ DOMAIN answers = {i}
      /\ \A l \in Logins, x \in Items : Expected(l, x) <=> x \in server[l]
      /\ \A l \in Logins, x \in Items : Expected(l, x)' <=> Expected(l, x)
      /\ \A l \in Logins : ~Arriving(l)'
  BY <1>1, <1>2, AnswerFacts
<1>4. dialog # Closed /\ a.login = dialog /\ blocks = <<>>
  BY <1>2, <1>3 DEF Fits
<1>. DEFINE shown == {[item |-> item, login |-> a.login, fading |-> FALSE] :
                          item \in a.items}
            block == [login |-> a.login, live |-> TRUE, rows |-> shown]
<1>5. blocks' = <<block>>
  <2>1. [k \in DOMAIN blocks |-> [blocks[k] EXCEPT !.live = TRUE]] = <<>>
    BY <1>4
  <2>2. blocks' = Append(<<>>, block)
    BY <1>2, <2>1, Zenon
  <2>. HIDE DEF block
  <2>. QED
    BY <2>2
<1>6. /\ \A r, s \in shown : r.item = s.item => r = s
      /\ \A x : (\E r \in shown : r.item = x /\ ~r.fading) <=> x \in a.items
  <2>. DEFINE row(x) == [item |-> x, login |-> a.login, fading |-> FALSE]
  <2>1. \A x : row(x).item = x /\ row(x).fading = FALSE
    OBVIOUS
  <2>2. /\ \A r \in shown : \E x \in a.items : r = row(x)
        /\ \A x \in a.items : row(x) \in shown
    OBVIOUS
  <2>. HIDE DEF row, shown
  <2>3. \A r, s \in shown : r.item = s.item => r = s
    BY <2>1, <2>2
  <2>4. \A x : (\E r \in shown : r.item = x /\ ~r.fading) <=> x \in a.items
    BY <2>1, <2>2
  <2>. QED
    BY <2>3, <2>4
<1>7. block.rows = shown
  OBVIOUS
<1>. HIDE DEF shown, block
<1>8. DOMAIN blocks' = {1} /\ blocks'[1].rows = shown /\ blocks' # <<>>
  BY <1>5, <1>7
<1>9. FetchesComeLast'
  BY <1>1, <1>3, <1>8 DEF FetchesComeLast
<1>10. BlockIsExpected'
  <2>1. \A x \in Items : x \in a.items <=> Expected(dialog, x)
    BY <1>3, <1>4
  <2>2. \A x \in Items : Expected(dialog, x)' <=> Expected(dialog, x)
    BY <1>1, <1>3, <1>4
  <2>. QED
    BY <1>1, <1>6, <1>8, <2>1, <2>2 DEF BlockIsExpected
<1>11. RowsAreExpected'
  <2>1. \A l \in Logins : ~Arriving(l)
    BY <1>2, <1>3 DEF Arriving
  <2>. HIDE DEF a
  <2>. QED
    BY <1>1, <1>3, <2>1, RowsKept
<1>. QED
  BY <1>9, <1>10, <1>11

\* A row is added at the end: it is there, and it is the only one if there is one.
LEMMA AddedEntry ==
    ASSUME NEW S, NEW rows \in Seq(S), NEW x \in S
    PROVE  /\ Append(rows, x) \in Seq(S)
           /\ Len(Append(rows, x)) = Len(rows) + 1
           /\ \E k \in DOMAIN Append(rows, x) : Append(rows, x)[k] = x
           /\ Len(rows) = 0 => Append(rows, x) = <<x>>
<1>1. Len(rows) = 0 => Append(rows, x) = <<x>>
  <2>1. SUFFICES ASSUME Len(rows) = 0
                 PROVE  Append(rows, x) = <<x>>
    OBVIOUS
  <2>2. rows = <<>>
    BY <2>1
  <2>. QED
    BY <2>2
<1>. QED
  BY <1>1, AppendFacts

\* The invariant when the row of a new user is written: in place of the row that was
\* found, or beside rows that were not, and then the user is doubled.
LEMMA NewUserPage ==
    ASSUME PageInv, AddNewUserSuccess
    PROVE  FetchesComeLast' /\ BlockIsExpected' /\ RowsAreExpected'
<1>1. /\ UNCHANGED <<server, failed, dialog, blocks, requests>>
      /\ table \in [Logins -> Seq(SUBSET Items)] /\ doubled \subseteq Logins
  BY DEF AddNewUserSuccess, PageInv, DialogInv, TypeInv, TypeOK
<1>2. PICK i \in DOMAIN answers :
         /\ answers[i].op = "insert"
         /\ answers' = RemoveAt(answers, i)
         /\ \/ /\ \E k \in DOMAIN table[answers[i].login] : table' =
                     [table EXCEPT ![answers[i].login] =
                         Append(RemoveAt(table[answers[i].login], k),
                                answers[i].items)]
               /\ UNCHANGED doubled
            \/ /\ table' = [table EXCEPT ![answers[i].login] =
                               Append(table[answers[i].login], answers[i].items)]
               /\ doubled' = IF table[answers[i].login] = <<>> THEN doubled
                             ELSE doubled \cup {answers[i].login}
  BY DEF AddNewUserSuccess, Next1
<1>. DEFINE a == answers[i]
<1>3. /\ a.login \in Logins /\ a.items \subseteq Items
      /\ a.items = server[a.login]
      /\ Fits(a)
      /\ requests = <<>> /\ answers' = <<>> /\ DOMAIN answers = {i}
      /\ \A l \in Logins, x \in Items : Expected(l, x) <=> x \in server[l]
      /\ \A l \in Logins, x \in Items : Expected(l, x)' <=> Expected(l, x)
      /\ \A l \in Logins : ~Arriving(l)'
  BY <1>1, <1>2, AnswerFacts
<1>4. a.op = "insert" /\ dialog = Closed /\ Listed(a.items)
  BY <1>2, <1>3 DEF Fits, PageInv, FetchesComeLast
<1>5. FetchesComeLast'
  BY <1>1, <1>3, <1>4 DEF FetchesComeLast
<1>6. BlockIsExpected'
  <2>1. DOMAIN blocks' = {}
    BY <1>1, <1>4, BlockFacts DEF PageInv
  <2>. QED
    BY <2>1 DEF BlockIsExpected
<1>. DEFINE rows == table[a.login]
<1>7. PICK left \in Seq(SUBSET Items) :
         /\ table' = [table EXCEPT ![a.login] = Append(left, a.items)]
         /\ \/ \E k \in DOMAIN rows : left = RemoveAt(rows, k) /\ UNCHANGED doubled
            \/ left = rows /\ doubled' = IF rows = <<>> THEN doubled
                                         ELSE doubled \cup {a.login}
  <2>1. rows \in Seq(SUBSET Items)
    BY <1>1, <1>3
  <2>2. \A k \in DOMAIN rows : RemoveAt(rows, k) \in Seq(SUBSET Items)
    BY <2>1, RemoveAtFacts
  <2>. QED
    BY <1>2, <2>1, <2>2
<1>8. doubled \subseteq doubled'
  BY <1>7
<1>9. a.login \notin doubled' => Len(left) = 0
  <2>1. SUFFICES ASSUME a.login \notin doubled'
                 PROVE  Len(left) = 0
    OBVIOUS
  <2>2. rows \in Seq(SUBSET Items) /\ Len(rows) <= 1
    BY <1>1, <1>3, <1>8, <2>1 DEF PageInv, RowsAreExpected
  <2>3. \A k \in DOMAIN rows : RemoveAt(rows, k) = <<>>
    BY <1>3, <2>2, OneEntry
  <2>4. left = <<>>
    BY <1>7, <2>1, <2>3
  <2>. QED
    BY <2>4
<1>. DEFINE after == Append(left, a.items)
<1>10. /\ table'[a.login] = after
       /\ \A l \in Logins : l # a.login => table'[l] = table[l]
  BY <1>1, <1>3, <1>7
<1>11. /\ \E k \in DOMAIN after : after[k] = a.items
       /\ a.login \notin doubled' => after = <<a.items>>
  BY <1>3, <1>9, AddedEntry
<1>. HIDE DEF after, rows
<1>12. RowsAreExpected'
  <2>1. ASSUME NEW l \in Logins \ doubled'
        PROVE  Len(table'[l]) <= 1
    <3>1. CASE l = a.login
      <4>1. table'[l] = <<a.items>>
        BY <1>10, <1>11, <2>1, <3>1
      <4>. HIDE DEF a
      <4>. QED
        BY <4>1
    <3>2. CASE l # a.login
      BY <1>8, <1>10, <2>1, <3>2 DEF PageInv, RowsAreExpected
    <3>. QED
      BY <3>1, <3>2
  <2>2. ASSUME NEW l \in Logins \ failed'
        PROVE  RowsSay(l, Will(l))'
    <3>0. Will(l)' = Will(l)
      BY <1>3, SameExpected
    <3>1. CASE l = a.login
      <4>1. Will(l) = a.items
        <5>1. \A x : x \in Will(l) <=> x \in a.items
          BY <1>3, <3>1 DEF Will
        <5>. QED
          BY <5>1
      <4>2. Will(l)' = a.items /\ table'[l] = after
        BY <1>10, <3>0, <3>1, <4>1
      <4>3. l \notin doubled' => after = RowsOf(a.items)
        BY <1>4, <1>11, <3>1 DEF RowsOf
      <4>. HIDE DEF a
      <4>. QED
        BY <1>11, <4>2, <4>3 DEF RowsSay, RowsOf, Listed
    <3>2. CASE l # a.login
      <4>1. table'[l] = table[l] /\ l # dialog /\ l \notin failed
        BY <1>1, <1>4, <1>10, <3>2, ItemAssumption
      <4>2. ~Arriving(l)
        BY <1>3, <3>2 DEF Arriving
      <4>3. RowsSay(l, Will(l))
        BY <4>1, <4>2 DEF PageInv, RowsAreExpected
      <4>. QED
        BY <1>8, <3>0, <4>1, <4>3 DEF RowsSay, RowsOf, Listed
    <3>. QED
      BY <3>1, <3>2
  <2>. QED
    BY <2>1, <2>2 DEF RowsAreExpected
<1>. QED
  BY <1>5, <1>6, <1>12

\* Requests handled in order and a patient manager given, the page is ahead of
\* the server by the posts under way and by nothing else, but for users about whom
\* a request failed.
THEOREM PageHolds == ASSUME Patient, InOrder PROVE Spec => []PageInv
<1>1. Init => PageInv
  <2>1. SUFFICES ASSUME Init
                 PROVE  FetchesComeLast /\ BlockIsExpected /\ RowsAreExpected
    BY TypeInvInitially
    DEF Init, PageInv, DialogInv, FetchesFit, OneUserPerDialog
  <2>2. FetchesComeLast /\ BlockIsExpected
    BY <2>1 DEF Init, FetchesComeLast, BlockIsExpected
  <2>3. ASSUME NEW l \in Logins
        PROVE  Len(table[l]) <= 1 /\ RowsSay(l, Will(l))
    <3>1. DOMAIN requests = {}
      BY <2>1 DEF Init
    <3>2. \A x : x \in Will(l) <=> x \in server[l]
      BY <2>1, <3>1, ItemAssumption DEF Init, Will, Expected
    <3>3. Will(l) = server[l]
      BY <3>2
    <3>4. table[l] = RowsOf(server[l])
      BY <2>1 DEF Init
    <3>. QED
      BY <3>3, <3>4 DEF RowsOf, RowsSay
  <2>. QED
    BY <2>2, <2>3 DEF RowsAreExpected
<1>2. ASSUME PageInv, [Next]_vars, DialogInv'
      PROVE  PageInv'
  <2>1. TypeOK' /\ OneUserPerDialog'
    BY <1>2 DEF DialogInv, TypeInv
  <2>2. ASSUME NEW l \in Logins, ModifyUser(l) \/ SubmitNewUser(l)
        PROVE  PageInv'
    BY <1>2, <2>2, FetchSentPage DEF PageInv
  <2>3. ASSUME NEW b \in DOMAIN blocks,
               AddAssociation(b) \/ RemoveAssociation(b) \/ FadedOut(b)
        PROVE  PageInv'
    BY <1>2, <2>1, <2>3, BlockStepPage DEF PageInv
  <2>4. CASE Close
    BY <1>2, <2>1, <2>4, ClosePage DEF PageInv
  <2>5. CASE LoadUser \/ InsertNewUser
    BY <1>2, <2>1, <2>5, FetchHandledPage DEF PageInv
  <2>6. CASE HandlePost
    BY <1>2, <2>6, PostHandledPage DEF PageInv
  <2>7. CASE PopulateUserInfo
    BY <1>2, <2>7, BlockArrivesPage DEF PageInv
  <2>8. CASE AddNewUserSuccess
    BY <1>2, <2>8, NewUserPage DEF PageInv
  <2>9. CASE UNCHANGED vars
    <3>1. FetchesComeLast' /\ BlockIsExpected'
      BY <1>2, <2>9
      DEF vars, page, PageInv, FetchesComeLast, BlockIsExpected, Expected, About,
          Listed, Fetching
    <3>2. ASSUME NEW l \in Logins
          PROVE  /\ Arriving(l)' <=> Arriving(l)
                 /\ \A i \in Items : Expected(l, i)' <=> Expected(l, i)
      BY <2>9 DEF vars, page, Arriving, Expected, About
    <3>3. RowsAreExpected'
      BY <1>2, <2>9, <3>2, RowsKept DEF vars, page
    <3>. QED
      BY <1>2, <3>1, <3>3 DEF PageInv
  <2>. QED
    BY <1>2, <2>2, <2>3, <2>4, <2>5, <2>6, <2>7, <2>8, <2>9 DEF Next
<1>3. PageInv => DialogInv
  BY DEF PageInv
<1>. QED
  BY <1>1, <1>2, <1>3, DialogHolds, PTL DEF Spec

\* Once nothing is open or under way, the rows of every user say what the server
\* has, unless a request about him failed since the page fetched him.
THEOREM RowsAreRightHolds ==
    ASSUME Patient, InOrder
    PROVE  Spec => []RowsAreRight
<1>1. ASSUME PageInv
      PROVE  RowsAreRight
  <2>1. SUFFICES ASSUME Settled, NEW l \in Logins \ failed
                 PROVE  RowsSay(l, server[l])
    BY DEF RowsAreRight
  <2>2. DOMAIN requests = {} /\ DOMAIN answers = {} /\ l # dialog
    BY <2>1, ItemAssumption DEF Settled
  <2>3. RowsSay(l, Will(l))
    BY <1>1, <2>2 DEF PageInv, RowsAreExpected, Arriving
  <2>4. \A x : x \in Will(l) <=> x \in server[l]
    BY <1>1, <2>2
    DEF Will, Expected, PageInv, DialogInv, TypeInv, TypeOK
  <2>5. Will(l) = server[l]
    BY <2>4
  <2>. QED
    BY <2>3, <2>5
<1>. QED
  BY <1>1, PageHolds, PTL

=============================================================================
