------------------------------ MODULE AtmProofs ------------------------------
(***************************************************************************)
(* The cash machine, for every length of the PIN and every balance: types, *)
(* that an awaited reply is coming, that actions follow a right PIN and    *)
(* that what is issued was debited.  The gumball machine; the remote       *)
(* control, for every number of slots; the weather station.                *)
(***************************************************************************)
EXTENDS MCMachines, FiniteSetTheorems, TLAPS

Digits == {"right", "wrong"}
PinReplies == {"pin_verified", "pin_incorrect"}
WithdrawReplies == {"withdraw_ok", "withdraw_denied"}

AtmMessages ==
  [type : {"card_inserted", "cancel_pressed", "balance_pressed", "withdraw_pressed",
           "close_queue"} \cup PinReplies \cup WithdrawReplies, value : {0}]
  \cup [type : {"digit_pressed"}, value : Digits]
  \cup [type : {"balance"}, value : Nat]

BankMessages ==
  [type : {"verify_pin"}, value : Seq(Digits)]
  \cup [type : {"withdraw", "withdrawal_processed", "cancel_withdrawal"}, value : {Amount}]
  \cup [type : {"get_balance", "close_queue"}, value : {0}]

DisplayMessages ==
  [type : {"issue_money"}, value : {Amount}]
  \cup [type : {"display_enter_card", "display_enter_pin", "eject_card",
                "display_withdrawal_options", "display_pin_incorrect_message",
                "display_insufficient_funds", "display_balance",
                "display_withdrawal_cancelled", "close_queue"}, value : Nat]

\* Each queue has the messages of its thread, with their values.
QueuesOK == /\ atmQueue \in Seq(AtmMessages)
            /\ bankQueue \in Seq(BankMessages)
            /\ hardwareQueue \in Seq(DisplayMessages)

\* A PIN is shorter than PinLength until it is verified.
PinOK == /\ state = "getting_pin" => Len(pin) < PinLength
         /\ state = "verifying_pin" => Len(pin) = PinLength

\* Unless a verification was abandoned, at most one is under way, as a request
\* with the PIN of this session or as an answer to it.
OneVerification ==
  LET asked == Pending(bankQueue, {"verify_pin"})
      answered == Pending(atmQueue, PinReplies)
  IN abandoned
     \/ /\ asked # {} \/ answered # {} => state = "verifying_pin"
        /\ asked = {} \/ answered = {}
        /\ \A i, j \in asked : i = j
        /\ \A i, j \in answered : i = j
        /\ \A i \in asked : bankQueue[i].value = pin
        /\ \A i \in Pending(atmQueue, {"pin_verified"}) : pin = RightPin

-----------------------------------------------------------------------------
(* The messages of some types in a queue *)

\* What Append() adds to them.
LEMMA PendingAppend ==
  ASSUME NEW S, NEW q \in Seq(S), NEW m \in S, NEW T
  PROVE  /\ Append(q, m) \in Seq(S)
         /\ m.type \in T => Pending(Append(q, m), T) = Pending(q, T) \cup {Len(q) + 1}
         /\ m.type \notin T => Pending(Append(q, m), T) = Pending(q, T)
         /\ \A i \in Pending(q, T) : Append(q, m)[i] = q[i]
         /\ Append(q, m)[Len(q) + 1] = m
         /\ Pending(q, T) \subseteq 1 .. Len(q)
<1>1. /\ Append(q, m) \in Seq(S) /\ Len(Append(q, m)) = Len(q) + 1
      /\ Len(q) \in Nat
      /\ \A i \in 1 .. Len(q) : Append(q, m)[i] = q[i]
      /\ Append(q, m)[Len(q) + 1] = m
  OBVIOUS
<1>2. DOMAIN q = 1 .. Len(q) /\ DOMAIN Append(q, m) = 1 .. Len(q) + 1
  BY <1>1
<1>3. 1 .. Len(q) + 1 = (1 .. Len(q)) \cup {Len(q) + 1}
  BY <1>1
<1>. QED
  BY <1>1, <1>2, <1>3 DEF Pending

\* What Tail() leaves of them, and where.
LEMMA PendingTail ==
  ASSUME NEW S, NEW q \in Seq(S), q # <<>>, NEW T
  PROVE  /\ Tail(q) \in Seq(S) /\ Head(q) \in S /\ q[1] = Head(q)
         /\ 1 \in Pending(q, T) <=> Head(q).type \in T
         /\ \A i \in Pending(Tail(q), T) :
              i \in Nat /\ i + 1 \in Pending(q, T) /\ i # 0 /\ Tail(q)[i] = q[i + 1]
         /\ \A i \in Pending(q, T) :
              i \in Nat /\ (i = 1 \/ i - 1 \in Pending(Tail(q), T))
<1>1. /\ Tail(q) \in Seq(S) /\ Len(Tail(q)) = Len(q) - 1
      /\ Len(q) \in Nat /\ Len(q) >= 1
      /\ \A i \in 1 .. Len(q) - 1 : Tail(q)[i] = q[i + 1]
      /\ Head(q) = q[1] /\ Head(q) \in S
  OBVIOUS
<1>2. DOMAIN q = 1 .. Len(q) /\ DOMAIN Tail(q) = 1 .. Len(q) - 1
  BY <1>1
<1>. QED
  BY <1>1, <1>2 DEF Pending

\* There are finitely many.
LEMMA PendingFinite ==
  ASSUME NEW S, NEW q \in Seq(S), NEW T
  PROVE  IsFiniteSet(Pending(q, T)) /\ Cardinality(Pending(q, T)) \in Nat
<1>1. Pending(q, T) \subseteq 1 .. Len(q) /\ Len(q) \in Nat
  BY DEF Pending
<1>2. IsFiniteSet(1 .. Len(q))
  BY <1>1, FS_Interval
<1>3. IsFiniteSet(Pending(q, T))
  BY <1>1, <1>2, FS_Subset
<1>. QED
  BY <1>3, FS_CardinalityType

\* The messages of a queue that are in M.
Where(q, M) == {i \in DOMAIN q : q[i] \in M}

\* There are finitely many.
LEMMA WhereFinite ==
  ASSUME NEW S, NEW q \in Seq(S), NEW M
  PROVE  /\ Where(q, M) \subseteq 1 .. Len(q) /\ Len(q) \in Nat
         /\ IsFiniteSet(Where(q, M)) /\ Cardinality(Where(q, M)) \in Nat
<1>1. Where(q, M) \subseteq 1 .. Len(q) /\ Len(q) \in Nat
  BY DEF Where
<1>2. IsFiniteSet(1 .. Len(q))
  BY <1>1, FS_Interval
<1>3. IsFiniteSet(Where(q, M))
  BY <1>1, <1>2, FS_Subset
<1>. QED
  BY <1>1, <1>3, FS_CardinalityType

\* Append() adds one of them or none.
LEMMA WhereAppend ==
  ASSUME NEW S, NEW q \in Seq(S), NEW m \in S, NEW M
  PROVE  Cardinality(Where(Append(q, m), M)) =
           Cardinality(Where(q, M)) + (IF m \in M THEN 1 ELSE 0)
<1>1. /\ Len(Append(q, m)) = Len(q) + 1 /\ Len(q) \in Nat
      /\ \A i \in 1 .. Len(q) : Append(q, m)[i] = q[i]
      /\ Append(q, m)[Len(q) + 1] = m
      /\ DOMAIN q = 1 .. Len(q) /\ DOMAIN Append(q, m) = 1 .. Len(q) + 1
  OBVIOUS
<1>2. 1 .. Len(q) + 1 = (1 .. Len(q)) \cup {Len(q) + 1} /\ Len(q) + 1 \notin 1 .. Len(q)
  BY <1>1
<1>3. /\ m \in M => Where(Append(q, m), M) = Where(q, M) \cup {Len(q) + 1}
      /\ m \notin M => Where(Append(q, m), M) = Where(q, M)
      /\ Len(q) + 1 \notin Where(q, M)
  BY <1>1, <1>2 DEF Where
<1>. QED
  BY <1>3, WhereFinite, FS_AddElement

\* Tail() takes one of them away or none.
LEMMA WhereTail ==
  ASSUME NEW S, NEW q \in Seq(S), q # <<>>, NEW M
  PROVE  Cardinality(Where(Tail(q), M)) =
           Cardinality(Where(q, M)) - (IF Head(q) \in M THEN 1 ELSE 0)
<1> DEFINE P == Where(q, M) \ {1}
           Q == Where(Tail(q), M)
           f == [i \in Q |-> i + 1]
<1>0. /\ Tail(q) \in Seq(S) /\ Len(Tail(q)) = Len(q) - 1
      /\ Len(q) \in Nat /\ Len(q) >= 1
      /\ \A i \in 1 .. Len(q) - 1 : Tail(q)[i] = q[i + 1]
      /\ Head(q) = q[1] /\ DOMAIN q = 1 .. Len(q) /\ DOMAIN Tail(q) = 1 .. Len(q) - 1
  OBVIOUS
<1>1. \A i \in Q : i \in Nat /\ i # 0 /\ i + 1 \in P
  BY <1>0 DEF Where
<1>2. \A j \in P : j \in Nat /\ j - 1 \in Q
  BY <1>0 DEF Where
<1>3. f \in Bijection(Q, P)
  <2>1. f \in [Q -> P]
    BY <1>1
  <2>2. \A a, b \in Q : f[a] = f[b] => a = b
    BY <1>1
  <2>3. \A j \in P : \E i \in Q : f[i] = j
    <3>1. TAKE j \in P
    <3>2. j - 1 \in Q /\ f[j - 1] = j
      BY <1>2
    <3>. QED
      BY <3>2
  <2>. HIDE DEF f, P, Q
  <2>. QED
    BY <2>1, <2>2, <2>3 DEF Bijection, Injection, IsInjective, Surjection
<1>4. Cardinality(P) = Cardinality(Q) /\ IsFiniteSet(Q)
  <2>1. IsFiniteSet(Q)
    BY <1>0, WhereFinite
  <2>. HIDE DEF f, P, Q
  <2>. QED
    BY <1>3, <2>1, FS_Bijection DEF ExistsBijection
<1>5. 1 \in Where(q, M) <=> Head(q) \in M
  BY <1>0 DEF Where
<1>6. IsFiniteSet(Where(q, M)) /\ Cardinality(Where(q, M)) \in Nat
  BY WhereFinite
<1>7. Cardinality(P) = IF 1 \in Where(q, M) THEN Cardinality(Where(q, M)) - 1
                                            ELSE Cardinality(Where(q, M))
  BY <1>6, FS_RemoveElement
<1>. QED
  BY <1>4, <1>5, <1>6, <1>7

\* Those of some types are one case.
LEMMA PendingWhere ==
  ASSUME NEW S, NEW q \in Seq(S), NEW T
  PROVE  Pending(q, T) = Where(q, {m \in S : m.type \in T})
<1>1. \A i \in DOMAIN q : q[i] \in S
  OBVIOUS
<1>. QED
  BY <1>1 DEF Pending, Where

\* Append() adds one of the types or none.
LEMMA CountAppend ==
  ASSUME NEW S, NEW q \in Seq(S), NEW m \in S, NEW T
  PROVE  Cardinality(Pending(Append(q, m), T)) =
           Cardinality(Pending(q, T)) + (IF m.type \in T THEN 1 ELSE 0)
<1> DEFINE M == {n \in S : n.type \in T}
<1>1. Append(q, m) \in Seq(S) /\ (m \in M <=> m.type \in T)
  OBVIOUS
<1>2. Pending(Append(q, m), T) = Where(Append(q, m), M) /\ Pending(q, T) = Where(q, M)
  BY <1>1, PendingWhere
<1> HIDE DEF M
<1>3. Cardinality(Where(Append(q, m), M)) =
        Cardinality(Where(q, M)) + (IF m \in M THEN 1 ELSE 0)
  BY WhereAppend
<1>. QED
  BY <1>1, <1>2, <1>3

\* Another type does not count.
LEMMA CountUnchanged ==
  ASSUME NEW S, NEW q \in Seq(S), NEW m \in S, NEW T, m.type \notin T
  PROVE  Cardinality(Pending(Append(q, m), T)) = Cardinality(Pending(q, T))
BY PendingAppend

\* Tail() takes one of the types away or none.
LEMMA CountTail ==
  ASSUME NEW S, NEW q \in Seq(S), q # <<>>, NEW T
  PROVE  Cardinality(Pending(Tail(q), T)) =
           Cardinality(Pending(q, T)) - (IF Head(q).type \in T THEN 1 ELSE 0)
<1> DEFINE M == {n \in S : n.type \in T}
<1>1. Tail(q) \in Seq(S) /\ (Head(q) \in M <=> Head(q).type \in T)
  OBVIOUS
<1>2. Pending(Tail(q), T) = Where(Tail(q), M) /\ Pending(q, T) = Where(q, M)
  BY <1>1, PendingWhere
<1> HIDE DEF M
<1>3. Cardinality(Where(Tail(q), M)) =
        Cardinality(Where(q, M)) - (IF Head(q) \in M THEN 1 ELSE 0)
  BY WhereTail
<1>. QED
  BY <1>1, <1>2, <1>3

\* An empty queue has none.
LEMMA CountEmpty == \A T : Cardinality(Pending(<<>>, T)) = 0 /\ Pending(<<>>, T) = {}
<1>1. \A T : Pending(<<>>, T) = {}
  BY DEF Pending
<1>. QED
  BY <1>1, FS_EmptySet

-----------------------------------------------------------------------------
(* Types *)

States == {"waiting_for_card", "getting_pin", "verifying_pin", "wait_for_action",
           "process_withdrawal", "process_balance"}

\* Handled is a record of the states, and names the answers each waits for.
LEMMA HandledStates ==
  /\ DOMAIN Handled = States
  /\ PinReplies \subseteq Handled["verifying_pin"]
  /\ WithdrawReplies \subseteq Handled["process_withdrawal"]
  /\ "balance" \in Handled["process_balance"]
BY DEF Handled, States, PinReplies, WithdrawReplies

\* The messages that are sent have the types of their queues.
LEMMA MessagesHaveTypes ==
  /\ \A type \in {"card_inserted", "cancel_pressed", "balance_pressed",
                  "withdraw_pressed", "close_queue"} \cup PinReplies \cup WithdrawReplies :
       Msg(type) \in AtmMessages
  /\ \A d \in Digits : MsgWith("digit_pressed", d) \in AtmMessages
  /\ \A n \in Nat : MsgWith("balance", n) \in AtmMessages
  /\ \A p \in Seq(Digits) : [type |-> "verify_pin", value |-> p] \in BankMessages
  /\ \A type \in {"withdraw", "withdrawal_processed", "cancel_withdrawal"} :
       MsgWith(type, Amount) \in BankMessages
  /\ Msg("get_balance") \in BankMessages /\ Msg("close_queue") \in BankMessages
  /\ MsgWith("issue_money", Amount) \in DisplayMessages
  /\ \A n \in Nat : MsgWith("display_balance", n) \in DisplayMessages
  /\ \A type \in {"display_enter_card", "display_enter_pin", "eject_card",
                  "display_withdrawal_options", "display_pin_incorrect_message",
                  "display_insufficient_funds", "display_withdrawal_cancelled",
                  "close_queue"} : Msg(type) \in DisplayMessages
<1> USE DEF Msg, MsgWith
<1>1. /\ \A type \in {"card_inserted", "cancel_pressed", "balance_pressed",
                      "withdraw_pressed", "close_queue"} \cup PinReplies \cup WithdrawReplies :
           Msg(type) \in AtmMessages
      /\ \A d \in Digits : MsgWith("digit_pressed", d) \in AtmMessages
      /\ \A n \in Nat : MsgWith("balance", n) \in AtmMessages
  BY DEF AtmMessages
<1>2. /\ \A p \in Seq(Digits) : [type |-> "verify_pin", value |-> p] \in BankMessages
      /\ \A type \in {"withdraw", "withdrawal_processed", "cancel_withdrawal"} :
           MsgWith(type, Amount) \in BankMessages
      /\ Msg("get_balance") \in BankMessages /\ Msg("close_queue") \in BankMessages
  BY DEF BankMessages
<1>3. /\ MsgWith("issue_money", Amount) \in DisplayMessages
      /\ \A n \in Nat : MsgWith("display_balance", n) \in DisplayMessages
      /\ \A type \in {"display_enter_card", "display_enter_pin", "eject_card",
                      "display_withdrawal_options", "display_pin_incorrect_message",
                      "display_insufficient_funds", "display_withdrawal_cancelled",
                      "close_queue"} : Msg(type) \in DisplayMessages
  BY DEF DisplayMessages
<1>. QED
  BY <1>1, <1>2, <1>3

\* What the receiver of a message knows of its value.
LEMMA ValuesHaveTypes ==
  /\ \A m \in AtmMessages : /\ m.type = "digit_pressed" => m.value \in Digits
                            /\ m.type = "balance" => m.value \in Nat
  /\ \A m \in BankMessages : /\ m.type = "verify_pin" => m.value \in Seq(Digits)
                             /\ m.type = "withdraw" => m.value = Amount
  /\ \A m \in DisplayMessages : /\ m.value \in Nat
                                /\ m.type = "issue_money" => m.value = Amount
<1>1. \A m \in AtmMessages : /\ m.type = "digit_pressed" => m.value \in Digits
                             /\ m.type = "balance" => m.value \in Nat
  BY DEF AtmMessages, PinReplies, WithdrawReplies
<1>2. \A m \in BankMessages : /\ m.type = "verify_pin" => m.value \in Seq(Digits)
                              /\ m.type = "withdraw" => m.value = Amount
  BY DEF BankMessages
<1>3. \A m \in DisplayMessages : /\ m.value \in Nat
                                 /\ m.type = "issue_money" => m.value = Amount
  BY DEF DisplayMessages, Amount
<1>. QED
  BY <1>1, <1>2, <1>3

Typed == TypeOK /\ QueuesOK /\ PinOK

\* The messages that Take() leaves, and the one it takes.
LEMMA TakeTyped ==
  ASSUME QueuesOK, NEW type, Take(type)
  PROVE  atmQueue' \in Seq(AtmMessages) /\ Head(atmQueue) \in AtmMessages
BY PendingTail DEF Take, QueuesOK

\* The messages that Finish() and OfferActions() add.
LEMMA ShownTyped ==
  ASSUME QueuesOK, NEW ms \in Seq(DisplayMessages)
  PROVE  /\ Show(ms) => hardwareQueue' \in Seq(DisplayMessages)
         /\ Finish(ms) => hardwareQueue' \in Seq(DisplayMessages)
         /\ OfferActions(ms) => hardwareQueue' \in Seq(DisplayMessages)
<1>1. /\ hardwareQueue \in Seq(DisplayMessages)
      /\ <<Msg("eject_card"), Msg("display_enter_card")>> \in Seq(DisplayMessages)
      /\ Msg("display_withdrawal_options") \in DisplayMessages
  BY MessagesHaveTypes DEF QueuesOK
<1>2. /\ ms \o <<Msg("eject_card"), Msg("display_enter_card")>> \in Seq(DisplayMessages)
      /\ Append(ms, Msg("display_withdrawal_options")) \in Seq(DisplayMessages)
  BY <1>1
<1>3. \A shown \in Seq(DisplayMessages) : hardwareQueue \o shown \in Seq(DisplayMessages)
  BY <1>1
<1>. QED
  BY <1>2, <1>3 DEF Show, Finish, OfferActions

\* Initially there is one message.
LEMMA InitTyped == Init => Typed
<1> SUFFICES ASSUME Init PROVE Typed
  OBVIOUS
<1>1. TypeOK
  BY AtmAssumption, HandledStates DEF Init, TypeOK, States
<1>2. QueuesOK
  BY MessagesHaveTypes DEF Init, QueuesOK
<1>3. PinOK
  BY DEF Init, PinOK
<1>. QED
  BY <1>1, <1>2, <1>3 DEF Typed

\* Each step of the atm thread sends messages of the types of the queues and
\* keeps the PIN within its length.
LEMMA AtmTyped == Typed /\ AtmStep => Typed'
<1> SUFFICES ASSUME TypeOK, QueuesOK, PinOK, AtmStep PROVE Typed'
  BY DEF Typed
<1>a. /\ state \in States /\ pin \in Seq(Digits) /\ Len(pin) \in 0 .. PinLength
      /\ PinLength \in Nat \ {0}
  BY AtmAssumption, HandledStates DEF TypeOK, Digits
<1>b. /\ balance' = balance /\ running' = running /\ issued' = issued /\ keys' = keys
  BY DEF AtmStep, main
<1>c. ASSUME state' \in States, pin' \in Seq(Digits), Len(pin') \in 0 .. PinLength
      PROVE  TypeOK'
  BY <1>b, <1>c, HandledStates DEF TypeOK, Digits
<1>d. ASSUME state' \in States \ {"getting_pin", "verifying_pin"}, pin' = pin
      PROVE  TypeOK' /\ PinOK'
  BY <1>a, <1>c, <1>d DEF PinOK
<1>e. /\ bankQueue \in Seq(BankMessages) /\ hardwareQueue \in Seq(DisplayMessages)
  BY DEF QueuesOK
<1>f. ASSUME NEW type, Take(type), NoBank \/ \E m \in BankMessages : ToBank(m),
             hardwareQueue' \in Seq(DisplayMessages)
      PROVE  QueuesOK'
  <2>1. atmQueue' \in Seq(AtmMessages)
    BY <1>f, TakeTyped
  <2>2. \A m \in BankMessages : Append(bankQueue, m) \in Seq(BankMessages)
    BY <1>e
  <2>3. bankQueue' = bankQueue \/ \E m \in BankMessages : bankQueue' = Append(bankQueue, m)
    BY <1>f DEF NoBank, ToBank
  <2>4. bankQueue' \in Seq(BankMessages)
    BY <1>e, <2>2, <2>3
  <2>. QED
    BY <1>f, <2>1, <2>4 DEF QueuesOK
<1>g. <<>> \in Seq(DisplayMessages)
  OBVIOUS
<1>1. CASE InsertCard
  <2>1. <<Msg("display_enter_pin")>> \in Seq(DisplayMessages)
    BY MessagesHaveTypes
  <2>2. QueuesOK'
    BY <1>1, <1>f, <2>1, ShownTyped DEF InsertCard
  <2>3. TypeOK' /\ PinOK'
    BY <1>1, <1>a, <1>c DEF InsertCard, PinOK, States
  <2>. QED
    BY <2>2, <2>3 DEF Typed
<1>2. CASE TakeDigit
  <2>1. Head(atmQueue).value \in Digits
    BY <1>2, TakeTyped, ValuesHaveTypes DEF TakeDigit, Take
  <2>2. pin' \in Seq(Digits) /\ Len(pin') = Len(pin) + 1 /\ Len(pin) < PinLength
    BY <1>2, <1>a, <2>1 DEF TakeDigit, PinOK
  <2>3. QueuesOK'
    BY <1>2, <1>e, <1>f, <2>2, MessagesHaveTypes DEF TakeDigit, NoShow
  <2>4. TypeOK' /\ PinOK'
    BY <1>2, <1>a, <1>c, <2>2 DEF TakeDigit, PinOK, States
  <2>. QED
    BY <2>3, <2>4 DEF Typed
<1>3. CASE PinVerified
  <2>1. QueuesOK'
    BY <1>3, <1>f, <1>g, ShownTyped DEF PinVerified
  <2>2. TypeOK' /\ PinOK'
    BY <1>3, <1>d DEF PinVerified, OfferActions, Enter, States
  <2>. QED
    BY <2>1, <2>2 DEF Typed
<1>4. CASE PinIncorrect
  <2>1. <<Msg("display_pin_incorrect_message")>> \in Seq(DisplayMessages)
    BY MessagesHaveTypes
  <2>2. QueuesOK'
    BY <1>4, <1>f, <2>1, ShownTyped DEF PinIncorrect
  <2>3. TypeOK' /\ PinOK'
    BY <1>4, <1>d DEF PinIncorrect, Finish, Enter, States
  <2>. QED
    BY <2>2, <2>3 DEF Typed
<1>5. CASE AskWithdrawal \/ AskBalance
  <2>1. QueuesOK'
    BY <1>5, <1>e, <1>f, MessagesHaveTypes DEF AskWithdrawal, AskBalance, NoShow
  <2>2. TypeOK' /\ PinOK'
    BY <1>5, <1>d DEF AskWithdrawal, AskBalance, Enter, States
  <2>. QED
    BY <2>1, <2>2 DEF Typed
<1>6. CASE WithdrawOk
  <2>1. <<MsgWith("issue_money", Amount)>> \in Seq(DisplayMessages)
    BY MessagesHaveTypes
  <2>2. QueuesOK'
    BY <1>6, <1>f, <2>1, ShownTyped, MessagesHaveTypes DEF WithdrawOk
  <2>3. TypeOK' /\ PinOK'
    BY <1>6, <1>d DEF WithdrawOk, Finish, Enter, States
  <2>. QED
    BY <2>2, <2>3 DEF Typed
<1>7. CASE WithdrawDenied
  <2>1. <<Msg("display_insufficient_funds")>> \in Seq(DisplayMessages)
    BY MessagesHaveTypes
  <2>2. QueuesOK'
    BY <1>7, <1>f, <2>1, ShownTyped DEF WithdrawDenied
  <2>3. TypeOK' /\ PinOK'
    BY <1>7, <1>d DEF WithdrawDenied, Finish, Enter, States
  <2>. QED
    BY <2>2, <2>3 DEF Typed
<1>8. CASE ShowBalance
  <2>1. Head(atmQueue).value \in Nat
    BY <1>8, TakeTyped, ValuesHaveTypes DEF ShowBalance, Take
  <2>2. <<MsgWith("display_balance", Head(atmQueue).value)>> \in Seq(DisplayMessages)
    BY <2>1, MessagesHaveTypes
  <2>3. QueuesOK'
    BY <1>8, <1>f, <2>2, ShownTyped DEF ShowBalance
  <2>4. TypeOK' /\ PinOK'
    BY <1>8, <1>d DEF ShowBalance, OfferActions, Enter, States
  <2>. QED
    BY <2>3, <2>4 DEF Typed
<1>9. CASE CancelWithdrawal
  <2>1. <<Msg("display_withdrawal_cancelled")>> \in Seq(DisplayMessages)
    BY MessagesHaveTypes
  <2>2. QueuesOK'
    BY <1>9, <1>f, <2>1, ShownTyped, MessagesHaveTypes DEF CancelWithdrawal
  <2>3. TypeOK' /\ PinOK'
    BY <1>9, <1>d DEF CancelWithdrawal, Finish, Enter, States
  <2>. QED
    BY <2>2, <2>3 DEF Typed
<1>10. CASE Cancel
  <2>1. QueuesOK'
    BY <1>10, <1>f, <1>g, ShownTyped DEF Cancel
  <2>2. TypeOK' /\ PinOK'
    BY <1>10, <1>d DEF Cancel, Finish, Enter, States
  <2>. QED
    BY <2>1, <2>2 DEF Typed
<1>11. CASE Drop
  <2>1. QueuesOK'
    BY <1>11, <1>e, <1>f DEF Drop, NoShow
  <2>2. TypeOK' /\ PinOK'
    BY <1>11, <1>a, <1>c DEF Drop, session, PinOK
  <2>. QED
    BY <2>1, <2>2 DEF Typed
<1>. QED
  BY <1>1, <1>2, <1>3, <1>4, <1>5, <1>6, <1>7, <1>8, <1>9, <1>10, <1>11 DEF AtmStep

\* The bank answers messages of its types, and debits at most its balance.
LEMMA BankTyped == Typed /\ Bank => Typed'
<1> SUFFICES ASSUME TypeOK, QueuesOK, PinOK, Bank PROVE Typed'
  BY DEF Typed
<1> DEFINE m == Head(bankQueue)
<1>1. m \in BankMessages /\ bankQueue' \in Seq(BankMessages)
  BY DEF Bank, QueuesOK
<1>2. /\ state' = state /\ pin' = pin /\ issued' = issued /\ keys' = keys
      /\ hardwareQueue' = hardwareQueue
  BY DEF Bank, session, main
<1>3. balance \in 0 .. InitialBalance /\ InitialBalance \in Nat /\ Amount \in Nat
  BY AtmAssumption DEF TypeOK, Amount
<1> HIDE DEF m
<1>4. atmQueue' \in Seq(AtmMessages) /\ balance' \in 0 .. InitialBalance
  <2>1. CASE VerifyPin(m)
    <3>1. PICK reply \in AtmMessages : Reply(reply)
      BY <2>1, MessagesHaveTypes DEF VerifyPin, PinReplies
    <3>. QED
      BY <2>1, <3>1, <1>3 DEF VerifyPin, Reply, QueuesOK
  <2>2. CASE Withdraw(m)
    <3>1. PICK reply \in AtmMessages : Reply(reply)
      BY <2>2, MessagesHaveTypes DEF Withdraw, WithdrawReplies
    <3>2. m.value = Amount
      BY <2>2, <1>1, ValuesHaveTypes DEF Withdraw
    <3>. QED
      BY <2>2, <3>1, <3>2, <1>3 DEF Withdraw, Reply, QueuesOK
  <2>3. CASE GetBalance(m)
    <3>1. MsgWith("balance", balance) \in AtmMessages
      BY <1>3, MessagesHaveTypes
    <3>. QED
      BY <2>3, <3>1, <1>3 DEF GetBalance, Reply, QueuesOK
  <2>4. CASE Acknowledge(m) \/ BankClose(m)
    BY <2>4, <1>3 DEF Acknowledge, BankClose, QueuesOK
  <2>. QED
    BY <2>1, <2>2, <2>3, <2>4 DEF Bank, m
<1>5. running' \subseteq {"atm", "bank", "hardware"}
  BY DEF Bank, BankClose, TypeOK
<1>6. TypeOK'
  BY <1>2, <1>4, <1>5 DEF TypeOK
<1>7. QueuesOK'
  BY <1>1, <1>2, <1>4 DEF QueuesOK
<1>8. PinOK'
  BY <1>2 DEF PinOK
<1>. QED
  BY <1>6, <1>7, <1>8 DEF Typed

\* The other threads send keys and close_queue, and stop themselves.
LEMMA OthersTyped ==
  Typed /\ (AtmClose \/ Display \/ PressKey \/ Quit \/ Closing) => Typed'
<1> SUFFICES ASSUME TypeOK, QueuesOK, PinOK,
                    AtmClose \/ Display \/ PressKey \/ Quit \/ Closing
             PROVE  Typed'
  BY DEF Typed
<1>1. state' = state /\ pin' = pin /\ balance' = balance
  BY DEF AtmClose, Display, PressKey, Quit, Closing, CloseBank, CloseAtm, CloseHardware,
         Return, session
<1>2. PinOK'
  BY <1>1 DEF PinOK
<1>3. CASE AtmClose
  <2>1. QueuesOK'
    BY <1>3, TakeTyped DEF AtmClose, QueuesOK
  <2>2. TypeOK'
    BY <1>3, <1>1 DEF AtmClose, TypeOK, main
  <2>. QED
    BY <1>2, <2>1, <2>2 DEF Typed
<1>4. CASE Display
  <2>1. /\ Head(hardwareQueue) \in DisplayMessages
        /\ hardwareQueue' \in Seq(DisplayMessages)
    BY <1>4 DEF Display, QueuesOK
  <2>2. Head(hardwareQueue).value \in Nat
    BY <2>1, ValuesHaveTypes
  <2>3. QueuesOK'
    BY <1>4, <2>1 DEF Display, QueuesOK
  <2>4. issued' \in Nat /\ running' \subseteq {"atm", "bank", "hardware"} /\ keys' = keys
    BY <1>4, <2>2 DEF Display, TypeOK, main
  <2>5. TypeOK'
    BY <1>1, <2>4 DEF TypeOK
  <2>. QED
    BY <1>2, <2>3, <2>5 DEF Typed
<1>5. CASE PressKey
  <2>1. PICK key \in AtmMessages : atmQueue' = Append(atmQueue, key)
    BY <1>5, MessagesHaveTypes DEF PressKey, Digits
  <2>2. QueuesOK'
    BY <1>5, <2>1 DEF PressKey, QueuesOK
  <2>3. keys' \in 0 .. MaxKeys /\ running' = running /\ issued' = issued
    BY <1>5, AtmAssumption DEF PressKey, TypeOK
  <2>4. TypeOK'
    BY <1>1, <2>3 DEF TypeOK
  <2>. QED
    BY <1>2, <2>2, <2>4 DEF Typed
<1>6. CASE Quit \/ Closing
  <2>0. /\ Append(atmQueue, Msg("close_queue")) \in Seq(AtmMessages)
        /\ Append(bankQueue, Msg("close_queue")) \in Seq(BankMessages)
        /\ Append(hardwareQueue, Msg("close_queue")) \in Seq(DisplayMessages)
    BY MessagesHaveTypes DEF QueuesOK
  <2>1. QueuesOK'
    BY <1>6, <2>0 DEF Quit, Closing, CloseBank, CloseAtm, CloseHardware, Return, QueuesOK
  <2>2. TypeOK'
    BY <1>6, <1>1 DEF Quit, Closing, CloseBank, CloseAtm, CloseHardware, Return, TypeOK
  <2>. QED
    BY <1>2, <2>1, <2>2 DEF Typed
<1>. QED
  BY <1>3, <1>4, <1>5, <1>6

\* Each step keeps the types.
LEMMA StepTyped == Typed /\ [Next]_vars => Typed'
<1>1. ASSUME Typed, UNCHANGED vars PROVE Typed'
  BY <1>1 DEF vars, session, main, Typed, TypeOK, QueuesOK, PinOK
<1>. QED
  BY <1>1, AtmTyped, BankTyped, OthersTyped DEF Next, Atm

\* The balance never falls below zero, the PIN has at most its length, and the
\* atm is in one of its six states.
THEOREM TypeCorrect == Spec => []TypeOK
<1>1. Typed => TypeOK
  BY DEF Typed
<1>. QED
  BY InitTyped, StepTyped, <1>1, PTL DEF Spec

\* Messages, too, keep their types.
LEMMA AlwaysTyped == Spec => []Typed
BY InitTyped, StepTyped, PTL DEF Spec

-----------------------------------------------------------------------------
(* Replies *)

\* A message stays in its queue when another is appended or taken.
LEMMA PendingStays ==
  ASSUME NEW S, NEW q \in Seq(S), NEW T, Pending(q, T) # {}
  PROVE  /\ \A m \in S : Pending(Append(q, m), T) # {}
         /\ q # <<>> /\ Head(q).type \notin T => Pending(Tail(q), T) # {}
<1>1. ASSUME NEW m \in S PROVE Pending(Append(q, m), T) # {}
  BY PendingAppend
<1>2. ASSUME q # <<>>, Head(q).type \notin T PROVE Pending(Tail(q), T) # {}
  <2>1. PICK i \in Pending(q, T) : TRUE
    OBVIOUS
  <2>2. i # 1 /\ (i = 1 \/ i - 1 \in Pending(Tail(q), T))
    BY <1>2, <2>1, PendingTail
  <2>. QED
    BY <2>2
<1>. QED
  BY <1>1, <1>2

\* A message that has been appended is in the queue.
LEMMA PendingArrives ==
  ASSUME NEW S, NEW q \in Seq(S), NEW m \in S, NEW T, m.type \in T
  PROVE  Pending(Append(q, m), T) # {}
BY PendingAppend

\* The atm thread does not lose the answer to a request while it takes other
\* messages and sends other requests.
LEMMA ComingAtAtm ==
  ASSUME QueuesOK, NEW request, NEW replies, Coming(request, replies),
         NEW type, Take(type), type \notin replies,
         NoBank \/ \E m \in BankMessages : ToBank(m)
  PROVE  Coming(request, replies)'
<1>1. Pending(atmQueue, replies) # {} => Pending(atmQueue, replies)' # {}
  BY PendingStays DEF Take, QueuesOK
<1>2. Pending(bankQueue, {request}) # {} => Pending(bankQueue, {request})' # {}
  BY PendingStays DEF NoBank, ToBank, QueuesOK
<1>. QED
  BY <1>1, <1>2 DEF Coming

\* The bank answers the request, or takes another message.
LEMMA ComingAtBank ==
  ASSUME QueuesOK, NEW request, NEW replies, Coming(request, replies), Bank,
         \/ /\ Head(bankQueue).type # request
            /\ atmQueue' = atmQueue \/ \E m \in AtmMessages : Reply(m)
         \/ \E m \in AtmMessages : Reply(m) /\ m.type \in replies
  PROVE  Coming(request, replies)'
<1>1. /\ atmQueue \in Seq(AtmMessages) /\ bankQueue \in Seq(BankMessages)
      /\ bankQueue # <<>> /\ bankQueue' = Tail(bankQueue)
  BY DEF QueuesOK, Bank
<1>2. CASE \E m \in AtmMessages : Reply(m) /\ m.type \in replies
  BY <1>1, <1>2, PendingArrives DEF Reply, Coming
<1>3. CASE /\ Head(bankQueue).type # request
           /\ atmQueue' = atmQueue \/ \E m \in AtmMessages : Reply(m)
  <2>1. Pending(atmQueue, replies) # {} => Pending(atmQueue, replies)' # {}
    BY <1>1, <1>3, PendingStays DEF Reply
  <2>2. Pending(bankQueue, {request}) # {} => Pending(bankQueue, {request})' # {}
    BY <1>1, <1>3, PendingStays
  <2>. QED
    BY <2>1, <2>2 DEF Coming
<1>. QED
  BY <1>2, <1>3

\* The other steps add to the queues or take close_queue.
LEMMA ComingElsewhere ==
  ASSUME QueuesOK, NEW request, NEW replies, Coming(request, replies),
         "close_queue" \notin replies,
         AtmClose \/ Display \/ PressKey \/ Quit \/ Closing
  PROVE  Coming(request, replies)'
<1>1. atmQueue \in Seq(AtmMessages) /\ bankQueue \in Seq(BankMessages)
  BY DEF QueuesOK
<1>2. CASE AtmClose
  BY <1>2, ComingAtAtm DEF AtmClose, NoBank
<1>3. ASSUME ~AtmClose
      PROVE  /\ atmQueue' = atmQueue \/ \E m \in AtmMessages : atmQueue' = Append(atmQueue, m)
             /\ bankQueue' = bankQueue
                \/ \E m \in BankMessages : bankQueue' = Append(bankQueue, m)
  BY <1>3, MessagesHaveTypes DEF Display, PressKey, Quit, Closing, CloseBank, CloseAtm,
     CloseHardware, Return, Digits
<1>4. CASE ~AtmClose
  <2>1. Pending(atmQueue, replies) # {} => Pending(atmQueue, replies)' # {}
    BY <1>1, <1>3, <1>4, PendingStays
  <2>2. Pending(bankQueue, {request}) # {} => Pending(bankQueue, {request})' # {}
    BY <1>1, <1>3, <1>4, PendingStays
  <2>. QED
    BY <2>1, <2>2 DEF Coming
<1>. QED
  BY <1>2, <1>4

\* What the bank replies to each kind of message.
LEMMA BankReplies ==
  ASSUME Typed, Bank
  PROVE  LET type == Head(bankQueue).type
         IN \/ type = "verify_pin" /\ \E m \in AtmMessages : Reply(m) /\ m.type \in PinReplies
            \/ type = "withdraw" /\ \E m \in AtmMessages : Reply(m) /\ m.type \in WithdrawReplies
            \/ type = "get_balance" /\ \E m \in AtmMessages : Reply(m) /\ m.type = "balance"
            \/ /\ type \notin {"verify_pin", "withdraw", "get_balance"}
               /\ atmQueue' = atmQueue
<1> DEFINE m == Head(bankQueue)
<1>0. /\ \A type : Msg(type).type = type
      /\ \A type, v : MsgWith(type, v).type = type
  BY DEF Msg, MsgWith
<1>1. balance \in Nat
  BY AtmAssumption DEF Typed, TypeOK
<1>2. CASE VerifyPin(m)
  BY <1>0, <1>2, MessagesHaveTypes DEF VerifyPin, PinReplies
<1>3. CASE Withdraw(m)
  BY <1>0, <1>3, MessagesHaveTypes DEF Withdraw, WithdrawReplies
<1>4. CASE GetBalance(m)
  BY <1>0, <1>1, <1>4, MessagesHaveTypes DEF GetBalance
<1>5. CASE Acknowledge(m) \/ BankClose(m)
  BY <1>5 DEF Acknowledge, BankClose
<1>. QED
  BY <1>2, <1>3, <1>4, <1>5 DEF Bank

\* No step of the atm thread drops the answer to the request it waits for.
LEMMA AwaitedAtAtm == Typed /\ AwaitedReplyIsComing /\ AtmStep => AwaitedReplyIsComing'
<1> SUFFICES ASSUME Typed, AwaitedReplyIsComing, AtmStep PROVE AwaitedReplyIsComing'
  OBVIOUS
<1>a. QueuesOK /\ state \in States /\ pin \in Seq(Digits)
  BY HandledStates DEF Typed, TypeOK, Digits
<1>1. CASE \/ InsertCard \/ PinVerified \/ PinIncorrect \/ WithdrawOk \/ WithdrawDenied
           \/ ShowBalance \/ CancelWithdrawal \/ Cancel
  <2>1. state' \in {"waiting_for_card", "getting_pin", "wait_for_action"}
    BY <1>1 DEF InsertCard, PinVerified, PinIncorrect, WithdrawOk, WithdrawDenied,
       ShowBalance, CancelWithdrawal, Cancel, Finish, OfferActions, Enter
  <2>. QED
    BY <2>1 DEF AwaitedReplyIsComing
<1>2. CASE TakeDigit
  <2>1. CASE Len(pin') = PinLength
    <3> DEFINE request == [type |-> "verify_pin", value |-> pin']
    <3>1. pin' \in Seq(Digits)
      BY <1>2, StepTyped DEF Typed, TypeOK, Digits, Next, Atm
    <3>2. request \in BankMessages /\ request.type = "verify_pin"
      BY <3>1, MessagesHaveTypes
    <3>3. bankQueue' = Append(bankQueue, request) /\ state' = "verifying_pin"
      BY <1>2, <2>1 DEF TakeDigit, ToBank
    <3> HIDE DEF request
    <3>4. Pending(bankQueue', {"verify_pin"}) # {}
      BY <1>a, <3>2, <3>3, PendingArrives DEF QueuesOK
    <3>. QED
      BY <3>3, <3>4 DEF AwaitedReplyIsComing, Coming
  <2>2. CASE Len(pin') # PinLength
    <3>1. state' = "getting_pin"
      BY <1>2, <2>2 DEF TakeDigit
    <3>. QED
      BY <3>1 DEF AwaitedReplyIsComing
  <2>. QED
    BY <2>1, <2>2
<1>3. CASE AskWithdrawal
  <2>1. /\ MsgWith("withdraw", Amount) \in BankMessages
        /\ MsgWith("withdraw", Amount).type = "withdraw"
    BY MessagesHaveTypes DEF MsgWith
  <2>2. /\ bankQueue' = Append(bankQueue, MsgWith("withdraw", Amount))
        /\ state' = "process_withdrawal"
    BY <1>3 DEF AskWithdrawal, Enter, ToBank
  <2>3. Pending(bankQueue', {"withdraw"}) # {}
    BY <1>a, <2>1, <2>2, PendingArrives DEF QueuesOK
  <2>. QED
    BY <2>2, <2>3 DEF AwaitedReplyIsComing, Coming
<1>4. CASE AskBalance
  <2>1. Msg("get_balance") \in BankMessages /\ Msg("get_balance").type = "get_balance"
    BY MessagesHaveTypes DEF Msg
  <2>2. bankQueue' = Append(bankQueue, Msg("get_balance")) /\ state' = "process_balance"
    BY <1>4 DEF AskBalance, Enter, ToBank
  <2>3. Pending(bankQueue', {"get_balance"}) # {}
    BY <1>a, <2>1, <2>2, PendingArrives DEF QueuesOK
  <2>. QED
    BY <2>2, <2>3 DEF AwaitedReplyIsComing, Coming
<1>5. CASE Drop
  <2>1. PICK type : type \notin Handled[state] /\ Take(type) /\ NoBank
    BY <1>5 DEF Drop
  <2>2. state' = state
    BY <1>5 DEF Drop, session
  <2>3. ASSUME NEW request, NEW replies, replies \subseteq Handled[state],
               Coming(request, replies)
        PROVE  Coming(request, replies)'
    BY <1>a, <2>1, <2>3, ComingAtAtm
  <2>. QED
    BY <2>2, <2>3, HandledStates
    DEF AwaitedReplyIsComing, PinReplies, WithdrawReplies
<1>. QED
  BY <1>1, <1>2, <1>3, <1>4, <1>5 DEF AtmStep

\* Each request is answered by the bank, whichever it is.
LEMMA AwaitedAtBank == Typed /\ AwaitedReplyIsComing /\ Bank => AwaitedReplyIsComing'
<1> SUFFICES ASSUME Typed, AwaitedReplyIsComing, Bank PROVE AwaitedReplyIsComing'
  OBVIOUS
<1>1. QueuesOK /\ state' = state
  BY DEF Typed, Bank, session
<1>2. ASSUME NEW request, NEW replies, Coming(request, replies),
             \/ request = "verify_pin" /\ replies = PinReplies
             \/ request = "withdraw" /\ replies = WithdrawReplies
             \/ request = "get_balance" /\ replies = {"balance"}
      PROVE  Coming(request, replies)'
  BY <1>1, <1>2, ComingAtBank, BankReplies
<1>. QED
  BY <1>1, <1>2 DEF AwaitedReplyIsComing, PinReplies, WithdrawReplies

\* Keys and close_queue do not touch the replies.
LEMMA AwaitedElsewhere ==
  Typed /\ AwaitedReplyIsComing /\ (AtmClose \/ Display \/ PressKey \/ Quit \/ Closing)
    => AwaitedReplyIsComing'
<1> SUFFICES ASSUME Typed, AwaitedReplyIsComing,
                    AtmClose \/ Display \/ PressKey \/ Quit \/ Closing
             PROVE  AwaitedReplyIsComing'
  OBVIOUS
<1>1. QueuesOK /\ state' = state
  BY DEF Typed, AtmClose, Display, PressKey, Quit, Closing, CloseBank, CloseAtm,
         CloseHardware, Return, session
<1>2. ASSUME NEW request, NEW replies, "close_queue" \notin replies,
             Coming(request, replies)
      PROVE  Coming(request, replies)'
  BY <1>1, <1>2, ComingElsewhere
<1>. QED
  BY <1>1, <1>2 DEF AwaitedReplyIsComing

\* The atm never waits for an answer that is not coming: it is asked for, or in
\* the queue, and no other state has dropped it.
THEOREM RepliesCome == Spec => []AwaitedReplyIsComing
<1>1. Init => AwaitedReplyIsComing
  BY DEF Init, AwaitedReplyIsComing
<1>2. ASSUME AwaitedReplyIsComing, UNCHANGED vars PROVE AwaitedReplyIsComing'
  BY <1>2 DEF vars, session, AwaitedReplyIsComing, Coming, Pending
<1>3. Typed /\ AwaitedReplyIsComing /\ [Next]_vars => AwaitedReplyIsComing'
  BY <1>2, AwaitedAtAtm, AwaitedAtBank, AwaitedElsewhere DEF Next, Atm
<1>. QED
  BY <1>1, <1>3, AlwaysTyped, PTL DEF Spec

-----------------------------------------------------------------------------
(* The PIN *)

\* What a queue keeps of the messages of some types when another is appended or
\* taken: none appears, and one remains one.
LEMMA PendingMoves ==
  ASSUME NEW S, NEW q \in Seq(S), NEW T, NEW r,
         \/ r = q
         \/ \E m \in S : m.type \notin T /\ r = Append(q, m)
         \/ q # <<>> /\ r = Tail(q)
  PROVE  /\ Pending(q, T) = {} => Pending(r, T) = {}
         /\ (\A i, j \in Pending(q, T) : i = j) => \A i, j \in Pending(r, T) : i = j
         /\ \A i \in Pending(r, T) : \E j \in Pending(q, T) : r[i] = q[j]
<1>1. CASE r = q
  BY <1>1
<1>2. ASSUME NEW m \in S, m.type \notin T, r = Append(q, m)
      PROVE  /\ Pending(r, T) = Pending(q, T)
             /\ \A i \in Pending(q, T) : r[i] = q[i]
  BY <1>2, PendingAppend
<1>3. CASE q # <<>> /\ r = Tail(q)
  <2>1. \A i \in Pending(r, T) : i \in Nat /\ i + 1 \in Pending(q, T) /\ r[i] = q[i + 1]
    BY <1>3, PendingTail
  <2>. QED
    BY <2>1
<1>. QED
  BY <1>1, <1>2, <1>3

\* A step that neither sends nor takes a request or an answer, of a state that
\* does not change.
LEMMA VerificationStays ==
  ASSUME QueuesOK, OneVerification, state' = state, pin' = pin, abandoned' = abandoned,
         \/ atmQueue' = atmQueue
         \/ \E m \in AtmMessages : m.type \notin PinReplies /\ atmQueue' = Append(atmQueue, m)
         \/ atmQueue # <<>> /\ atmQueue' = Tail(atmQueue),
         \/ bankQueue' = bankQueue
         \/ \E m \in BankMessages : m.type # "verify_pin" /\ bankQueue' = Append(bankQueue, m)
         \/ bankQueue # <<>> /\ bankQueue' = Tail(bankQueue)
  PROVE  OneVerification'
<1> DEFINE asked == Pending(bankQueue, {"verify_pin"})
           answered == Pending(atmQueue, PinReplies)
           right == Pending(atmQueue, {"pin_verified"})
<1>1. /\ asked = {} => asked' = {}
      /\ (\A i, j \in asked : i = j) => \A i, j \in asked' : i = j
      /\ \A i \in asked' : \E j \in asked : bankQueue'[i] = bankQueue[j]
  <2>1. \/ bankQueue' = bankQueue
        \/ \E m \in BankMessages : m.type \notin {"verify_pin"}
                                   /\ bankQueue' = Append(bankQueue, m)
        \/ bankQueue # <<>> /\ bankQueue' = Tail(bankQueue)
    OBVIOUS
  <2>. QED
    BY <2>1, PendingMoves DEF QueuesOK
<1>2. /\ answered = {} => answered' = {}
      /\ (\A i, j \in answered : i = j) => \A i, j \in answered' : i = j
  BY PendingMoves, SMTT(30) DEF QueuesOK
<1>3. \A i \in right' : \E j \in right : TRUE
  <2>1. \/ atmQueue' = atmQueue
        \/ \E m \in AtmMessages : m.type \notin {"pin_verified"}
                                  /\ atmQueue' = Append(atmQueue, m)
        \/ atmQueue # <<>> /\ atmQueue' = Tail(atmQueue)
    BY DEF PinReplies
  <2>. QED
    BY <2>1, PendingMoves DEF QueuesOK
<1>. QED
  BY <1>1, <1>2, <1>3 DEF OneVerification, RightPin

\* Nothing is under way and nothing is asked.
LEMMA NothingAsked ==
  ASSUME QueuesOK, Pending(bankQueue, {"verify_pin"}) = {}, Pending(atmQueue, PinReplies) = {},
         \/ atmQueue' = atmQueue
         \/ atmQueue # <<>> /\ atmQueue' = Tail(atmQueue),
         \/ bankQueue' = bankQueue
         \/ \E m \in BankMessages : m.type # "verify_pin" /\ bankQueue' = Append(bankQueue, m)
  PROVE  OneVerification'
<1>1. Pending(bankQueue', {"verify_pin"}) = {}
  BY PendingMoves DEF QueuesOK
<1>2. Pending(atmQueue', PinReplies) = {}
  BY PendingMoves DEF QueuesOK
<1>3. Pending(atmQueue', {"pin_verified"}) = {}
  BY <1>2 DEF Pending, PinReplies
<1>. QED
  BY <1>1, <1>2, <1>3 DEF OneVerification

PinInv == OneVerification /\ SessionsFollowTheirPin

\* The atm thread goes from a PIN to actions only by the answer about it.
LEMMA PinAtAtm == Typed /\ PinInv /\ AtmStep => PinInv'
<1> SUFFICES ASSUME Typed, OneVerification, SessionsFollowTheirPin, AtmStep,
                    ~abandoned'
             PROVE  PinInv'
  BY DEF PinInv, OneVerification, SessionsFollowTheirPin
<1> DEFINE asked == Pending(bankQueue, {"verify_pin"})
           answered == Pending(atmQueue, PinReplies)
<1>t. /\ QueuesOK
      /\ \A type : Msg(type).type = type
      /\ \A type, v : MsgWith(type, v).type = type
  BY DEF Typed, Msg, MsgWith
<1>m. abandoned' = abandoned \/ Cancel
  BY DEF AtmStep, InsertCard, TakeDigit, PinVerified, PinIncorrect, AskWithdrawal,
     AskBalance, WithdrawOk, WithdrawDenied, ShowBalance, CancelWithdrawal, Drop, pins
<1>n. ~abandoned /\ ~(Cancel /\ state = "verifying_pin")
  <2>1. Cancel => abandoned' = (abandoned \/ state = "verifying_pin")
    BY DEF Cancel
  <2>2. abandoned' = abandoned => ~abandoned
    OBVIOUS
  <2>3. Cancel => ~(abandoned \/ state = "verifying_pin")
    BY <2>1
  <2>. QED
    BY <1>m, <2>2, <2>3
<1>a. /\ QueuesOK /\ ~abandoned
      /\ \A type : Msg(type).type = type
      /\ \A type, v : MsgWith(type, v).type = type
  BY <1>t, <1>n
<1>b. state # "verifying_pin" => asked = {} /\ answered = {}
  BY <1>a DEF OneVerification
<1>c. atmQueue # <<>> /\ atmQueue' = Tail(atmQueue)
  BY DEF AtmStep, InsertCard, TakeDigit, PinVerified, PinIncorrect, AskWithdrawal,
     AskBalance, WithdrawOk, WithdrawDenied, ShowBalance, CancelWithdrawal, Cancel, Drop, Take
<1>1. CASE \/ InsertCard \/ AskWithdrawal \/ AskBalance \/ WithdrawOk \/ WithdrawDenied
           \/ ShowBalance \/ CancelWithdrawal \/ Cancel
  <2>1. state # "verifying_pin"
    BY <1>1, <1>n DEF InsertCard, AskWithdrawal, AskBalance, WithdrawOk, WithdrawDenied,
       ShowBalance, CancelWithdrawal
  <2>2. \/ bankQueue' = bankQueue
        \/ \E m \in BankMessages : m.type # "verify_pin" /\ bankQueue' = Append(bankQueue, m)
    BY <1>1, <1>a, MessagesHaveTypes DEF InsertCard, AskWithdrawal, AskBalance, WithdrawOk,
       WithdrawDenied, ShowBalance, CancelWithdrawal, Cancel, NoBank, ToBank
  <2>3. OneVerification'
    BY <1>a, <1>b, <1>c, <2>1, <2>2, NothingAsked
  <2>4. SessionsFollowTheirPin'
    BY <1>1, <1>a DEF SessionsFollowTheirPin, InsertCard, AskWithdrawal, AskBalance,
       WithdrawOk, WithdrawDenied, ShowBalance, CancelWithdrawal, Cancel, Finish,
       OfferActions, Enter
  <2>. QED
    BY <2>3, <2>4 DEF PinInv
<1>2. CASE TakeDigit
  <2>1. asked = {} /\ answered = {}
    BY <1>2, <1>b DEF TakeDigit
  <2>2. SessionsFollowTheirPin'
    BY <1>2 DEF TakeDigit, SessionsFollowTheirPin
  <2>3. CASE Len(pin') = PinLength
    <3> DEFINE request == [type |-> "verify_pin", value |-> pin']
    <3>1. pin' \in Seq(Digits)
      BY <1>2, StepTyped DEF Typed, TypeOK, Digits, Next, Atm
    <3>2. request \in BankMessages /\ request.type = "verify_pin" /\ request.value = pin'
      BY <3>1, MessagesHaveTypes
    <3>3. bankQueue' = Append(bankQueue, request) /\ state' = "verifying_pin"
      BY <1>2, <2>3 DEF TakeDigit, ToBank
    <3> HIDE DEF request
    <3>4. /\ Pending(bankQueue', {"verify_pin"}) = {Len(bankQueue) + 1}
          /\ bankQueue'[Len(bankQueue) + 1] = request
      BY <1>a, <2>1, <3>2, <3>3, PendingAppend DEF QueuesOK
    <3>5. Pending(atmQueue', PinReplies) = {}
      BY <1>a, <1>c, <2>1, PendingMoves DEF QueuesOK
    <3>6. Pending(atmQueue', {"pin_verified"}) = {}
      BY <3>5 DEF Pending, PinReplies
    <3>7. OneVerification'
      BY <3>2, <3>3, <3>4, <3>5, <3>6 DEF OneVerification
    <3>. QED
      BY <2>2, <3>7 DEF PinInv
  <2>4. CASE Len(pin') # PinLength
    <3>1. bankQueue' = bankQueue
      BY <1>2, <2>4 DEF TakeDigit, NoBank
    <3>2. OneVerification'
      BY <1>a, <1>c, <2>1, <3>1, NothingAsked
    <3>. QED
      BY <2>2, <3>2 DEF PinInv
  <2>. QED
    BY <2>3, <2>4
<1>3. CASE PinVerified \/ PinIncorrect
  <2>1. 1 \in answered
    BY <1>3, <1>a, PendingTail DEF PinVerified, PinIncorrect, Take, PinReplies, QueuesOK
  <2>2. asked = {} /\ \A i \in answered : i = 1
    BY <1>a, <2>1 DEF OneVerification
  <2>3. bankQueue' = bankQueue
    BY <1>3 DEF PinVerified, PinIncorrect, NoBank
  <2>4. Pending(atmQueue', PinReplies) = {}
    <3>1. \A i \in Pending(atmQueue', PinReplies) : i \in Nat /\ i # 0 /\ i + 1 \in answered
      BY <1>a, <1>c, PendingTail DEF QueuesOK
    <3>. QED
      BY <2>2, <3>1
  <2>5. Pending(atmQueue', {"pin_verified"}) = {}
    BY <2>4 DEF Pending, PinReplies
  <2>6. OneVerification'
    BY <2>2, <2>3, <2>4, <2>5 DEF OneVerification
  <2>7. CASE PinVerified
    <3>1. 1 \in Pending(atmQueue, {"pin_verified"})
      BY <2>7, <1>a, PendingTail DEF PinVerified, Take, QueuesOK
    <3>2. pin = RightPin /\ pin' = pin
      BY <1>a, <2>7, <3>1 DEF OneVerification, PinVerified, OfferActions, Enter
    <3>. QED
      BY <2>6, <3>2 DEF PinInv, SessionsFollowTheirPin, RightPin
  <2>8. CASE PinIncorrect
    BY <2>6, <2>8 DEF PinIncorrect, Finish, Enter, PinInv, SessionsFollowTheirPin
  <2>. QED
    BY <1>3, <2>7, <2>8
<1>4. CASE Drop
  <2>1. state' = state /\ pin' = pin /\ abandoned' = abandoned /\ bankQueue' = bankQueue
    BY <1>4 DEF Drop, session, pins, NoBank
  <2>2. OneVerification'
    BY <1>a, <1>c, <2>1, VerificationStays
  <2>3. SessionsFollowTheirPin'
    BY <2>1 DEF SessionsFollowTheirPin
  <2>. QED
    BY <2>2, <2>3 DEF PinInv
<1>. QED
  BY <1>1, <1>2, <1>3, <1>4 DEF AtmStep

\* The bank compares the PIN of the request with the right one.
LEMMA PinAtBank == Typed /\ PinInv /\ Bank => PinInv'
<1> SUFFICES ASSUME Typed, OneVerification, SessionsFollowTheirPin, Bank PROVE PinInv'
  BY DEF PinInv
<1> DEFINE m == Head(bankQueue)
           asked == Pending(bankQueue, {"verify_pin"})
           answered == Pending(atmQueue, PinReplies)
<1>1. state' = state /\ pin' = pin /\ abandoned' = abandoned
  BY DEF Bank, session, pins
<1>2. SessionsFollowTheirPin'
  BY <1>1 DEF SessionsFollowTheirPin
<1>3. /\ QueuesOK /\ bankQueue # <<>> /\ bankQueue' = Tail(bankQueue)
      /\ \A type : Msg(type).type = type
  BY DEF Typed, Bank, Msg
<1>4. CASE m.type = "verify_pin" /\ ~abandoned
  <2>1. 1 \in asked /\ bankQueue[1] = m
    BY <1>3, <1>4, PendingTail DEF QueuesOK
  <2>2. /\ state = "verifying_pin" /\ answered = {} /\ m.value = pin
        /\ \A i \in asked : i = 1
    BY <1>4, <2>1 DEF OneVerification
  <2>3. Pending(bankQueue', {"verify_pin"}) = {}
    <3>1. \A i \in Pending(bankQueue', {"verify_pin"}) :
            i \in Nat /\ i # 0 /\ i + 1 \in asked
      BY <1>3, PendingTail DEF QueuesOK
    <3>. QED
      BY <2>2, <3>1
  <2>4. PICK reply \in AtmMessages :
          /\ atmQueue' = Append(atmQueue, reply) /\ reply.type \in PinReplies
          /\ reply.type = "pin_verified" => m.value = RightPin
    BY <1>3, <1>4, MessagesHaveTypes
    DEF Bank, BankClose, VerifyPin, Withdraw, GetBalance, Acknowledge, Reply, PinReplies
  <2>5. Pending(atmQueue', PinReplies) = {Len(atmQueue) + 1}
    BY <1>3, <2>2, <2>4, PendingAppend DEF QueuesOK
  <2>6. ASSUME NEW i \in Pending(atmQueue', {"pin_verified"}) PROVE pin = RightPin
    <3>1. Pending(atmQueue, {"pin_verified"}) = {}
      BY <2>2 DEF Pending, PinReplies
    <3>2. reply.type = "pin_verified"
      BY <1>3, <2>4, <2>6, <3>1, PendingAppend DEF QueuesOK
    <3>. QED
      BY <2>2, <2>4, <3>2
  <2>7. OneVerification'
    BY <1>1, <2>2, <2>3, <2>5, <2>6 DEF OneVerification, RightPin
  <2>. QED
    BY <1>2, <2>7 DEF PinInv
<1>5. CASE abandoned
  BY <1>1, <1>2, <1>5 DEF PinInv, OneVerification
<1>6. CASE m.type # "verify_pin"
  <2>1. \/ atmQueue' = atmQueue
        \/ \E reply \in AtmMessages : reply.type \notin PinReplies
                                      /\ atmQueue' = Append(atmQueue, reply)
    BY <1>6, BankReplies DEF Reply, PinReplies, WithdrawReplies
  <2>2. OneVerification'
    BY <1>1, <1>3, <2>1, VerificationStays
  <2>. QED
    BY <1>2, <2>2 DEF PinInv
<1>. QED
  BY <1>4, <1>5, <1>6

\* Keys and close_queue are no requests and no answers.
LEMMA PinElsewhere ==
  Typed /\ PinInv /\ (AtmClose \/ Display \/ PressKey \/ Quit \/ Closing) => PinInv'
<1> SUFFICES ASSUME Typed, OneVerification, SessionsFollowTheirPin,
                    AtmClose \/ Display \/ PressKey \/ Quit \/ Closing
             PROVE  PinInv'
  BY DEF PinInv
<1>1. state' = state /\ pin' = pin /\ abandoned' = abandoned
  BY DEF AtmClose, Display, PressKey, Quit, Closing, CloseBank, CloseAtm, CloseHardware,
         Return, session, pins
<1>2. /\ QueuesOK
      /\ \A type : Msg(type).type = type
      /\ \A type, v : MsgWith(type, v).type = type
  BY DEF Typed, Msg, MsgWith
<1>3. \/ atmQueue' = atmQueue
      \/ \E m \in AtmMessages : m.type \notin PinReplies /\ atmQueue' = Append(atmQueue, m)
      \/ atmQueue # <<>> /\ atmQueue' = Tail(atmQueue)
  BY <1>2, MessagesHaveTypes DEF AtmClose, Take, Display, PressKey, Quit, Closing, CloseBank,
     CloseAtm, CloseHardware, Return, Digits, PinReplies
<1>4. \/ bankQueue' = bankQueue
      \/ \E m \in BankMessages : m.type # "verify_pin" /\ bankQueue' = Append(bankQueue, m)
  BY <1>2, MessagesHaveTypes DEF AtmClose, Display, PressKey, Quit, Closing, CloseBank,
     CloseAtm, CloseHardware, Return
<1>5. OneVerification'
  BY <1>1, <1>2, <1>3, <1>4, VerificationStays
<1>6. SessionsFollowTheirPin'
  BY <1>1 DEF SessionsFollowTheirPin
<1>. QED
  BY <1>5, <1>6 DEF PinInv

\* No session gets to the actions without a right PIN, whatever keys are pressed
\* while the bank verifies it, unless a verification was abandoned.
LEMMA SessionsFollow == Spec => []SessionsFollowTheirPin
<1>1. Init => PinInv
  BY CountEmpty DEF Init, PinInv, OneVerification, SessionsFollowTheirPin
<1>2. ASSUME PinInv, UNCHANGED vars PROVE PinInv'
  BY <1>2 DEF vars, session, pins, PinInv, OneVerification, SessionsFollowTheirPin, Pending,
     RightPin
<1>3. Typed /\ PinInv /\ [Next]_vars => PinInv'
  BY <1>2, PinAtAtm, PinAtBank, PinElsewhere DEF Next, Atm
<1>4. PinInv => SessionsFollowTheirPin
  BY DEF PinInv
<1>. QED
  BY <1>1, <1>3, <1>4, AlwaysTyped, PTL DEF Spec

-----------------------------------------------------------------------------
(* The right PINs and the sessions they admit *)

RightRequests == {m \in BankMessages : m.type = "verify_pin" /\ m.value = RightPin}
RightAsked == Cardinality(Where(bankQueue, RightRequests))
Verified == Cardinality(Pending(atmQueue, {"pin_verified"}))

\* Each right PIN is a request, or an answer, or has admitted a session, or will
\* admit none.
CreditInv == credit \in Int /\ RightAsked + Verified <= credit

LEMMA CreditNumbers == QueuesOK => RightAsked \in Nat /\ Verified \in Nat
BY WhereFinite, PendingFinite DEF QueuesOK, RightAsked, Verified

\* What becomes of the answers when one message is taken or appended.
LEMMA VerifiedChanges ==
  ASSUME QueuesOK
  PROVE  /\ \A type : Take(type) =>
              Verified' = Verified - (IF type = "pin_verified" THEN 1 ELSE 0)
         /\ \A m \in AtmMessages : atmQueue' = Append(atmQueue, m) =>
              Verified' = Verified + (IF m.type = "pin_verified" THEN 1 ELSE 0)
         /\ atmQueue' = atmQueue => Verified' = Verified
<1> DEFINE T == {"pin_verified"}
           N(q) == Cardinality(Pending(q, T))
<1>1. \A type : type \in T <=> type = "pin_verified"
  OBVIOUS
<1>2. Verified = N(atmQueue) /\ Verified' = N(atmQueue') /\ atmQueue \in Seq(AtmMessages)
  BY DEF Verified, QueuesOK
<1> HIDE DEF T
<1>3. \A m \in AtmMessages : N(Append(atmQueue, m)) = N(atmQueue) + (IF m.type \in T THEN 1 ELSE 0)
  BY <1>2, CountAppend
<1>4. atmQueue # <<>> => N(Tail(atmQueue)) = N(atmQueue) - (IF Head(atmQueue).type \in T THEN 1 ELSE 0)
  BY <1>2, CountTail
<1> HIDE DEF N
<1>5. ASSUME NEW type, Take(type)
      PROVE  Verified' = Verified - (IF type = "pin_verified" THEN 1 ELSE 0)
  BY <1>1, <1>2, <1>4, <1>5 DEF Take
<1>6. ASSUME NEW m \in AtmMessages, atmQueue' = Append(atmQueue, m)
      PROVE  Verified' = Verified + (IF m.type = "pin_verified" THEN 1 ELSE 0)
  BY <1>1, <1>2, <1>3, <1>6
<1>. QED
  BY <1>2, <1>5, <1>6

\* And of the requests.
LEMMA AskedChanges ==
  ASSUME QueuesOK
  PROVE  /\ \A m \in BankMessages : bankQueue' = Append(bankQueue, m) =>
              RightAsked' = RightAsked + (IF m \in RightRequests THEN 1 ELSE 0)
         /\ bankQueue # <<>> /\ bankQueue' = Tail(bankQueue) =>
              RightAsked' = RightAsked - (IF Head(bankQueue) \in RightRequests THEN 1 ELSE 0)
         /\ bankQueue' = bankQueue => RightAsked' = RightAsked
<1>1. /\ RightAsked = Cardinality(Where(bankQueue, RightRequests))
      /\ RightAsked' = Cardinality(Where(bankQueue', RightRequests))
      /\ bankQueue \in Seq(BankMessages)
  BY DEF RightAsked, RightRequests, RightPin, QueuesOK
<1>2. \A m \in BankMessages :
        Cardinality(Where(Append(bankQueue, m), RightRequests)) =
          Cardinality(Where(bankQueue, RightRequests)) + (IF m \in RightRequests THEN 1 ELSE 0)
  BY <1>1, WhereAppend
<1>3. bankQueue # <<>> =>
        Cardinality(Where(Tail(bankQueue), RightRequests)) =
          Cardinality(Where(bankQueue, RightRequests))
            - (IF Head(bankQueue) \in RightRequests THEN 1 ELSE 0)
  BY <1>1, WhereTail
<1>. QED
  BY <1>1, <1>2, <1>3

\* A step of the atm: a PIN that is sent, an answer that is used up or dropped.
LEMMA CreditAtAtm == Typed /\ CreditInv /\ AtmStep => CreditInv'
<1> SUFFICES ASSUME Typed, CreditInv, AtmStep PROVE CreditInv'
  OBVIOUS
<1>1. /\ QueuesOK /\ RightAsked \in Nat /\ Verified \in Nat /\ credit \in Int
      /\ RightAsked + Verified <= credit
      /\ \A type : Msg(type).type = type
      /\ \A type, v : MsgWith(type, v).type = type
  BY CreditNumbers DEF Typed, CreditInv, Msg, MsgWith
<1>2. \A m \in RightRequests : m.type = "verify_pin"
  BY DEF RightRequests
<1>3. ASSUME NEW type, Take(type), credit' = credit,
             \/ bankQueue' = bankQueue
             \/ \E m \in BankMessages : m.type # "verify_pin" /\ bankQueue' = Append(bankQueue, m)
      PROVE  CreditInv'
  <2>1. \E used \in {0, 1} : Verified' = Verified - used
    BY <1>1, <1>3, VerifiedChanges
  <2>2. RightAsked' = RightAsked
    <3>1. ASSUME NEW m \in BankMessages, m.type # "verify_pin", bankQueue' = Append(bankQueue, m)
          PROVE  RightAsked' = RightAsked
      BY <1>1, <1>2, <3>1, AskedChanges
    <3>. QED
      BY <1>1, <1>3, <3>1, AskedChanges
  <2>3. credit' = credit
    BY <1>3
  <2>4. RightAsked \in Nat /\ Verified \in Nat /\ credit \in Int /\ RightAsked + Verified <= credit
    BY <1>1
  <2>5. RightAsked' + Verified' <= credit'
    BY <2>1, <2>2, <2>3, <2>4
  <2>. QED
    BY <2>3, <2>4, <2>5 DEF CreditInv
<1>4. CASE \/ InsertCard \/ PinIncorrect \/ WithdrawDenied \/ ShowBalance \/ Cancel
  <2>1. bankQueue' = bankQueue /\ credit' = credit
    BY <1>4 DEF InsertCard, PinIncorrect, WithdrawDenied, ShowBalance, Cancel, NoBank, pins
  <2>2. \E type : Take(type)
    BY <1>4 DEF InsertCard, PinIncorrect, WithdrawDenied, ShowBalance, Cancel
  <2>. QED
    BY <1>3, <2>1, <2>2
<1>5. CASE \/ AskWithdrawal \/ AskBalance \/ WithdrawOk \/ CancelWithdrawal
  <2>1. \E m \in BankMessages : m.type # "verify_pin" /\ bankQueue' = Append(bankQueue, m)
    BY <1>1, <1>5, MessagesHaveTypes DEF AskWithdrawal, AskBalance, WithdrawOk,
       CancelWithdrawal, ToBank
  <2>2. credit' = credit
    BY <1>5 DEF AskWithdrawal, AskBalance, WithdrawOk, CancelWithdrawal, pins
  <2>3. \E type : Take(type)
    BY <1>5 DEF AskWithdrawal, AskBalance, WithdrawOk, CancelWithdrawal
  <2>. QED
    BY <1>3, <2>1, <2>2, <2>3
<1>6. CASE Drop
  <2>1. bankQueue' = bankQueue /\ credit' = credit
    BY <1>6 DEF Drop, NoBank, pins
  <2>2. \E type : Take(type)
    BY <1>6 DEF Drop
  <2>. QED
    BY <1>3, <2>1, <2>2
<1>7. CASE PinVerified
  <2>1. bankQueue' = bankQueue /\ credit' = credit - 1 /\ Take("pin_verified")
    BY <1>7 DEF PinVerified, NoBank
  <2>2. Verified' = Verified - 1 /\ RightAsked' = RightAsked
    BY <1>1, <2>1, VerifiedChanges, AskedChanges
  <2>. QED
    BY <1>1, <2>1, <2>2 DEF CreditInv
<1>8. CASE TakeDigit
  <2> DEFINE request == [type |-> "verify_pin", value |-> pin']
  <2>1. /\ Take("digit_pressed")
        /\ credit' = credit + (IF pin' = RightPin THEN 1 ELSE 0)
        /\ IF Len(pin') = PinLength THEN bankQueue' = Append(bankQueue, request)
                                    ELSE bankQueue' = bankQueue
    BY <1>8 DEF TakeDigit, ToBank, NoBank
  <2>2. Verified' = Verified
    BY <1>1, <2>1, VerifiedChanges
  <2>3. pin' \in Seq(Digits)
    BY <1>8, StepTyped DEF Typed, TypeOK, Digits, Next, Atm
  <2>4. request \in BankMessages /\ (request \in RightRequests <=> pin' = RightPin)
    BY <2>3, MessagesHaveTypes DEF RightRequests
  <2>5. CASE Len(pin') = PinLength
    <3>1. RightAsked' = RightAsked + (IF pin' = RightPin THEN 1 ELSE 0)
      <4> HIDE DEF request
      <4>. QED
        BY <1>1, <2>1, <2>4, <2>5, AskedChanges
    <3>. QED
      BY <1>1, <2>1, <2>2, <3>1 DEF CreditInv
  <2>6. CASE Len(pin') # PinLength
    <3>1. RightAsked' = RightAsked
      BY <1>1, <2>1, <2>6, AskedChanges
    <3>. QED
      BY <1>1, <2>1, <2>2, <3>1 DEF CreditInv
  <2>. QED
    BY <2>5, <2>6
<1>. QED
  BY <1>4, <1>5, <1>6, <1>7, <1>8 DEF AtmStep

\* The bank turns a right request into one answer that admits, and nothing else.
LEMMA CreditAtBank == Typed /\ CreditInv /\ Bank => CreditInv'
<1> SUFFICES ASSUME Typed, CreditInv, Bank PROVE CreditInv'
  OBVIOUS
<1> DEFINE m == Head(bankQueue)
<1>1. /\ QueuesOK /\ RightAsked \in Nat /\ Verified \in Nat /\ credit \in Int
      /\ RightAsked + Verified <= credit
      /\ \A type : Msg(type).type = type
      /\ \A type, v : MsgWith(type, v).type = type
      /\ balance \in Nat
  BY CreditNumbers, AtmAssumption DEF Typed, TypeOK, CreditInv, Msg, MsgWith
<1>2. credit' = credit /\ bankQueue # <<>> /\ bankQueue' = Tail(bankQueue) /\ m \in BankMessages
  BY <1>1 DEF Bank, pins, QueuesOK
<1>3. RightAsked' = RightAsked - (IF m \in RightRequests THEN 1 ELSE 0)
  BY <1>1, <1>2, AskedChanges
<1>4. m \in RightRequests <=> m.type = "verify_pin" /\ m.value = RightPin
  BY <1>2 DEF RightRequests
<1>5. Verified' = Verified + (IF m.type = "verify_pin" /\ m.value = RightPin THEN 1 ELSE 0)
  <2>1. CASE m.type = "verify_pin"
    <3>1. Reply(Msg(IF m.value = RightPin THEN "pin_verified" ELSE "pin_incorrect"))
      BY <2>1 DEF Bank, BankClose, VerifyPin, Withdraw, GetBalance, Acknowledge
    <3>2. Msg("pin_verified") \in AtmMessages /\ Msg("pin_incorrect") \in AtmMessages
      BY MessagesHaveTypes DEF PinReplies
    <3>. QED
      BY <1>1, <2>1, <3>1, <3>2, VerifiedChanges DEF Reply
  <2>2. CASE m.type # "verify_pin"
    <3>1. \/ atmQueue' = atmQueue
          \/ \E reply \in AtmMessages : reply.type # "pin_verified"
                                        /\ atmQueue' = Append(atmQueue, reply)
      BY <1>1, <2>2, BankReplies DEF Reply, WithdrawReplies
    <3>. QED
      BY <1>1, <2>2, <3>1, VerifiedChanges
  <2>. QED
    BY <2>1, <2>2
<1>. QED
  BY <1>1, <1>2, <1>3, <1>4, <1>5 DEF CreditInv

\* Keys and close_queue are no requests and no answers.
LEMMA CreditElsewhere ==
  Typed /\ CreditInv /\ (AtmClose \/ Display \/ PressKey \/ Quit \/ Closing) => CreditInv'
<1> SUFFICES ASSUME Typed, CreditInv, AtmClose \/ Display \/ PressKey \/ Quit \/ Closing
             PROVE  CreditInv'
  OBVIOUS
<1>1. /\ QueuesOK /\ RightAsked \in Nat /\ Verified \in Nat /\ credit \in Int
      /\ RightAsked + Verified <= credit
      /\ \A type : Msg(type).type = type
      /\ \A type, v : MsgWith(type, v).type = type
  BY CreditNumbers DEF Typed, CreditInv, Msg, MsgWith
<1>2. credit' = credit
  BY DEF AtmClose, Display, PressKey, Quit, Closing, CloseBank, CloseAtm, CloseHardware,
         Return, pins
<1>3. \/ atmQueue' = atmQueue
      \/ \E m \in AtmMessages : m.type # "pin_verified" /\ atmQueue' = Append(atmQueue, m)
      \/ Take("close_queue")
  BY <1>1, MessagesHaveTypes DEF AtmClose, Display, PressKey, Quit, Closing, CloseBank,
     CloseAtm, CloseHardware, Return, Digits
<1>4. \/ bankQueue' = bankQueue
      \/ \E m \in BankMessages : m.type # "verify_pin" /\ bankQueue' = Append(bankQueue, m)
  BY <1>1, MessagesHaveTypes DEF AtmClose, Display, PressKey, Quit, Closing, CloseBank,
     CloseAtm, CloseHardware, Return
<1>5. Verified' = Verified
  BY <1>1, <1>3, VerifiedChanges
<1>6. RightAsked' = RightAsked
  <2>1. \A m \in RightRequests : m.type = "verify_pin"
    BY DEF RightRequests
  <2>. QED
    BY <1>1, <1>4, <2>1, AskedChanges
<1>. QED
  BY <1>1, <1>2, <1>5, <1>6 DEF CreditInv

\* Actions follow a right PIN: that of the session, unless a verification was
\* abandoned; and with any number of late answers never more sessions are
\* admitted than right PINs were entered, for every length of the PIN.
THEOREM RightPinFirst == Spec => []ActionsFollowARightPin
<1>1. Init => CreditInv
  <2> SUFFICES ASSUME Init PROVE CreditInv
    OBVIOUS
  <2>1. Where(bankQueue, RightRequests) = {} /\ Pending(atmQueue, {"pin_verified"}) = {}
    BY DEF Init, Where, Pending
  <2>2. RightAsked = 0 /\ Verified = 0
    BY <2>1, FS_EmptySet DEF RightAsked, Verified
  <2>. QED
    BY <2>2 DEF Init, CreditInv
<1>2. ASSUME CreditInv, UNCHANGED vars PROVE CreditInv'
  BY <1>2 DEF vars, pins, CreditInv, RightAsked, Verified, RightRequests, RightPin
<1>3. Typed /\ CreditInv /\ [Next]_vars => CreditInv'
  BY <1>2, CreditAtAtm, CreditAtBank, CreditElsewhere DEF Next, Atm
<1>4. Typed /\ CreditInv => RightPinsAdmitOnce
  BY CreditNumbers DEF Typed, CreditInv, RightPinsAdmitOnce
<1>5. SessionsFollowTheirPin /\ RightPinsAdmitOnce => ActionsFollowARightPin
  BY DEF ActionsFollowARightPin
<1>. QED
  BY <1>1, <1>3, <1>4, <1>5, SessionsFollow, AlwaysTyped, PTL DEF Spec

-----------------------------------------------------------------------------
(* Money *)

\* Notes on their way out, and withdrawals that were granted.
Notes == Cardinality(Pending(hardwareQueue, {"issue_money"}))
Granted == Cardinality(Pending(atmQueue, {"withdraw_ok"}))

\* Both are numbers.
LEMMA CountsAreNumbers == QueuesOK => Notes \in Nat /\ Granted \in Nat
BY PendingFinite DEF QueuesOK, Notes, Granted

\* Sequences of messages, joined.
LEMMA Joins ==
  ASSUME NEW S, NEW q \in Seq(S), NEW r \in Seq(S), NEW s \in Seq(S), NEW a \in S
  PROVE  q \o (r \o s) = (q \o r) \o s /\ q \o Append(r, a) = Append(q \o r, a)
OBVIOUS

LEMMA JoinsOne ==
  ASSUME NEW S, NEW q \in Seq(S), NEW a \in S, NEW b \in S
  PROVE  /\ <<>> \in Seq(S) /\ <<a>> \in Seq(S) /\ <<a, b>> \in Seq(S)
         /\ q \o <<>> = q /\ q \o <<a>> = Append(q, a)
         /\ q \o <<a, b>> = Append(Append(q, a), b)
         /\ Append(q, a) \in Seq(S)
OBVIOUS

\* What the atm shows, one message after the other.
LEMMA ShownInTurn ==
  ASSUME NEW S, NEW q \in Seq(S), NEW a \in S, NEW b \in S, NEW c \in S
  PROVE  /\ q \o (<<a>> \o <<b, c>>) = Append(Append(Append(q, a), b), c)
         /\ q \o (<<>> \o <<b, c>>) = Append(Append(q, b), c)
         /\ q \o Append(<<a>>, c) = Append(Append(q, a), c)
         /\ q \o Append(<<>>, c) = Append(q, c)
         /\ q \o <<a>> = Append(q, a)
<1>1. Append(q, a) \in Seq(S) /\ q \o <<>> = q /\ q \o <<a>> = Append(q, a)
  BY JoinsOne
<1>2. q \o (<<a>> \o <<b, c>>) = Append(Append(Append(q, a), b), c)
  <2>1. q \o (<<a>> \o <<b, c>>) = (q \o <<a>>) \o <<b, c>>
    BY Joins, JoinsOne
  <2>. QED
    BY <1>1, <2>1, JoinsOne
<1>3. q \o (<<>> \o <<b, c>>) = Append(Append(q, b), c)
  <2>1. q \o (<<>> \o <<b, c>>) = (q \o <<>>) \o <<b, c>>
    BY Joins, JoinsOne
  <2>. QED
    BY <1>1, <2>1, JoinsOne
<1>4. q \o Append(<<a>>, c) = Append(Append(q, a), c)
  BY <1>1, Joins, JoinsOne
<1>5. q \o Append(<<>>, c) = Append(q, c)
  BY <1>1, Joins, JoinsOne
<1>. QED
  BY <1>1, <1>2, <1>3, <1>4, <1>5

\* One message more is one note more, or none.
LEMMA CountNotes ==
  ASSUME NEW q \in Seq(DisplayMessages), NEW m \in DisplayMessages
  PROVE  /\ Append(q, m) \in Seq(DisplayMessages)
         /\ m.type = "issue_money" => Cardinality(Pending(Append(q, m), {"issue_money"})) =
                                        Cardinality(Pending(q, {"issue_money"})) + 1
         /\ m.type # "issue_money" => Cardinality(Pending(Append(q, m), {"issue_money"})) =
                                        Cardinality(Pending(q, {"issue_money"}))
<1> DEFINE T == {"issue_money"}
<1>1. m.type = "issue_money" <=> m.type \in T
  OBVIOUS
<1> HIDE DEF T
<1>2. Cardinality(Pending(q, T)) \in Nat
  BY PendingFinite
<1>3. Cardinality(Pending(Append(q, m), T)) =
        Cardinality(Pending(q, T)) + (IF m.type \in T THEN 1 ELSE 0)
  BY CountAppend
<1>4. Append(q, m) \in Seq(DisplayMessages)
  OBVIOUS
<1>. QED
  BY <1>1, <1>2, <1>3, <1>4 DEF T

\* Notes', of a queue of any form.
LEMMA NotesOf == \A q : hardwareQueue' = q => Notes' = Cardinality(Pending(q, {"issue_money"}))
BY DEF Notes

\* Showing messages of which at most the first issues money.
LEMMA ShowNotes ==
  ASSUME QueuesOK, NEW a \in DisplayMessages, NEW b \in DisplayMessages,
         NEW c \in DisplayMessages,
         b.type # "issue_money", c.type # "issue_money"
  PROVE  /\ hardwareQueue' = Append(hardwareQueue, c) => Notes' = Notes
         /\ hardwareQueue' = Append(Append(hardwareQueue, b), c) => Notes' = Notes
         /\ hardwareQueue' = Append(Append(Append(hardwareQueue, a), b), c) =>
              /\ a.type # "issue_money" => Notes' = Notes
              /\ a.type = "issue_money" => Notes' = Notes + 1
<1> DEFINE q == hardwareQueue
           N(r) == Cardinality(Pending(r, {"issue_money"}))
<1>1. q \in Seq(DisplayMessages) /\ Notes = N(q) /\ \A r : q' = r => Notes' = N(r)
  BY NotesOf DEF QueuesOK, Notes
<1>2. \A r \in Seq(DisplayMessages), m \in DisplayMessages :
        /\ Append(r, m) \in Seq(DisplayMessages)
        /\ m.type = "issue_money" => N(Append(r, m)) = N(r) + 1
        /\ m.type # "issue_money" => N(Append(r, m)) = N(r)
  BY CountNotes
<1> HIDE DEF N
<1>3. N(Append(q, c)) = N(q)
  BY <1>1, <1>2
<1>4. Append(q, b) \in Seq(DisplayMessages) /\ N(Append(q, b)) = N(q)
  BY <1>1, <1>2
<1>5. N(Append(Append(q, b), c)) = N(q)
  BY <1>2, <1>4
<1>6. /\ Append(q, a) \in Seq(DisplayMessages)
      /\ a.type = "issue_money" => N(Append(q, a)) = N(q) + 1
      /\ a.type # "issue_money" => N(Append(q, a)) = N(q)
  BY <1>1, <1>2
<1>7. /\ Append(Append(q, a), b) \in Seq(DisplayMessages)
      /\ N(Append(Append(q, a), b)) = N(Append(q, a))
  BY <1>2, <1>6
<1>8. N(Append(Append(Append(q, a), b), c)) = N(Append(q, a))
  BY <1>2, <1>7
<1>. QED
  BY <1>1, <1>3, <1>5, <1>6, <1>8

\* Taking an answer, which is a withdraw_ok or another.
LEMMA TakeGranted ==
  ASSUME QueuesOK, NEW type, Take(type)
  PROVE  Granted' = Granted - (IF type = "withdraw_ok" THEN 1 ELSE 0)
BY CountTail DEF Take, QueuesOK, Granted

\* What the atm shows in each of its steps.
LEMMA NotesAtAtm ==
  ASSUME Typed, AtmStep
  PROVE  /\ WithdrawOk => Notes' = Notes + 1
         /\ ~WithdrawOk => Notes' = Notes
<1> DEFINE e == Msg("eject_card")
           d == Msg("display_enter_card")
           o == Msg("display_withdrawal_options")
<1>1. /\ QueuesOK /\ \A type : Msg(type).type = type
      /\ \A type, v : MsgWith(type, v).type = type
  BY DEF Typed, Msg, MsgWith
<1>2. {e, d, o} \subseteq DisplayMessages
  BY MessagesHaveTypes
<1>3. /\ e.type # "issue_money" /\ d.type # "issue_money" /\ o.type # "issue_money"
      /\ hardwareQueue \in Seq(DisplayMessages)
  BY <1>1 DEF QueuesOK
<1>4. ASSUME NEW a \in DisplayMessages, Show(<<a>> \o <<e, d>>)
      PROVE  /\ a.type # "issue_money" => Notes' = Notes
             /\ a.type = "issue_money" => Notes' = Notes + 1
  <2> HIDE DEF e, d, o
  <2>1. hardwareQueue' = Append(Append(Append(hardwareQueue, a), e), d)
    BY <1>2, <1>3, <1>4, ShownInTurn DEF Show
  <2>. QED
    BY <1>1, <1>2, <1>3, <2>1, ShowNotes
<1>5. ASSUME Show(<<>> \o <<e, d>>) PROVE Notes' = Notes
  <2> HIDE DEF e, d, o
  <2>1. hardwareQueue' = Append(Append(hardwareQueue, e), d)
    BY <1>2, <1>3, <1>5, ShownInTurn DEF Show
  <2>. QED
    BY <1>1, <1>2, <1>3, <2>1, ShowNotes
<1>6. ASSUME NEW a \in DisplayMessages, a.type # "issue_money",
             Show(Append(<<a>>, o)) \/ Show(Append(<<>>, o)) \/ Show(<<a>>)
      PROVE  Notes' = Notes
  <2> HIDE DEF e, d, o
  <2>1. \/ hardwareQueue' = Append(Append(hardwareQueue, a), o)
        \/ hardwareQueue' = Append(hardwareQueue, o)
        \/ hardwareQueue' = Append(hardwareQueue, a)
    BY <1>2, <1>3, <1>6, ShownInTurn DEF Show
  <2>. QED
    BY <1>1, <1>2, <1>3, <1>6, <2>1, ShowNotes
<1>7. CASE InsertCard
  <2>1. Msg("display_enter_pin") \in DisplayMessages
    BY MessagesHaveTypes
  <2>. QED
    BY <1>1, <1>6, <1>7, <2>1 DEF InsertCard, WithdrawOk
<1>8. CASE TakeDigit \/ AskWithdrawal \/ AskBalance \/ Drop
  <2>1. hardwareQueue' = hardwareQueue
    BY <1>8 DEF TakeDigit, AskWithdrawal, AskBalance, Drop, NoShow
  <2>2. CASE TakeDigit \/ AskWithdrawal \/ AskBalance
    BY <2>1, <2>2 DEF Notes, TakeDigit, AskWithdrawal, AskBalance, WithdrawOk
  <2>3. CASE Drop
    <3>1. PICK type : type \notin Handled[state] /\ Take(type)
      BY <2>3 DEF Drop
    <3>2. ~WithdrawOk
      BY <3>1, HandledStates DEF WithdrawOk, Take, WithdrawReplies
    <3>. QED
      BY <2>1, <3>2 DEF Notes
  <2>. QED
    BY <1>8, <2>2, <2>3
<1>9. CASE PinVerified
  <2>1. Show(Append(<<>>, o)) /\ ~WithdrawOk
    BY <1>9 DEF PinVerified, OfferActions, WithdrawOk
  <2>2. o \in DisplayMessages /\ o.type # "issue_money"
    BY <1>2, <1>3
  <2>. QED
    BY <1>6, <2>1, <2>2
<1>10. CASE ShowBalance
  <2>1. PICK a \in DisplayMessages : a.type # "issue_money" /\ OfferActions(<<a>>)
    <3>1. Head(atmQueue).value \in Nat
      BY <1>1, <1>10, TakeTyped, ValuesHaveTypes DEF ShowBalance, Take
    <3>2. MsgWith("display_balance", Head(atmQueue).value) \in DisplayMessages
      BY <3>1, MessagesHaveTypes
    <3>3. MsgWith("display_balance", Head(atmQueue).value).type # "issue_money"
      BY <1>1
    <3>4. OfferActions(<<MsgWith("display_balance", Head(atmQueue).value)>>)
      BY <1>10 DEF ShowBalance
    <3>. QED
      BY <3>2, <3>3, <3>4
  <2>2. Show(Append(<<a>>, o)) /\ ~WithdrawOk
    BY <1>10, <2>1 DEF ShowBalance, OfferActions, WithdrawOk
  <2>. QED
    BY <1>6, <2>1, <2>2
<1>11. CASE PinIncorrect \/ WithdrawDenied \/ CancelWithdrawal
  <2>1. PICK a \in DisplayMessages : a.type # "issue_money" /\ Finish(<<a>>)
    <3>1. ASSUME NEW type \in {"display_pin_incorrect_message", "display_insufficient_funds",
                              "display_withdrawal_cancelled"}
          PROVE  Msg(type) \in DisplayMessages /\ Msg(type).type # "issue_money"
      BY <1>1, MessagesHaveTypes
    <3>. QED
      BY <1>11, <3>1 DEF PinIncorrect, WithdrawDenied, CancelWithdrawal
  <2>2. ~WithdrawOk
    <3>1. \E type \in {"pin_incorrect", "withdraw_denied", "cancel_pressed"} : Take(type)
      BY <1>11 DEF PinIncorrect, WithdrawDenied, CancelWithdrawal
    <3>. QED
      BY <3>1 DEF WithdrawOk, Take
  <2>3. Show(<<a>> \o <<e, d>>)
    BY <2>1 DEF Finish
  <2>. QED
    BY <1>4, <2>1, <2>2, <2>3
<1>12. CASE WithdrawOk
  <2>1. PICK a \in DisplayMessages : a.type = "issue_money" /\ Finish(<<a>>)
    BY <1>1, <1>12, MessagesHaveTypes DEF WithdrawOk
  <2>2. Show(<<a>> \o <<e, d>>)
    BY <2>1 DEF Finish
  <2>. QED
    BY <1>4, <1>12, <2>1, <2>2
<1>13. CASE Cancel
  <2>1. Show(<<>> \o <<e, d>>)
    BY <1>13 DEF Cancel, Finish
  <2>2. ~WithdrawOk
    BY <1>13 DEF Cancel, WithdrawOk
  <2>. QED
    BY <1>5, <2>1, <2>2
<1>. QED
  BY <1>7, <1>8, <1>9, <1>10, <1>11, <1>12, <1>13 DEF AtmStep

\* What has been issued, and what may still be, was debited.
Debited == issued + Amount * (Notes + Granted) <= InitialBalance - balance

\* The account is debited by what becomes issued, or by more.
LEMMA DebitedStays ==
  ASSUME Typed, Debited, QueuesOK',
         NEW n \in Int, NEW g \in Int, NEW i \in Int, NEW b \in Int,
         issued' = issued + i, balance' = balance - b,
         Notes' = Notes + n, Granted' = Granted + g,
         i + Amount * n + Amount * g <= b
  PROVE  Debited'
<1>1. /\ issued \in Nat /\ balance \in Int /\ InitialBalance \in Nat
      /\ Notes \in Nat /\ Granted \in Nat
  BY AtmAssumption, CountsAreNumbers DEF Typed, TypeOK
<1>. QED
  BY <1>1 DEF Debited, Amount

\* The atm uses a grant up for one note, and loses those it drops.
LEMMA DebitedByAtm == Typed /\ QueuesOK' /\ Debited /\ AtmStep => Debited'
<1> SUFFICES ASSUME Typed, QueuesOK', Debited, AtmStep PROVE Debited'
  OBVIOUS
<1>1. issued' = issued /\ balance' = balance /\ issued \in Nat /\ balance \in Nat
  BY AtmAssumption DEF AtmStep, Typed, TypeOK
<1>2. PICK type : Take(type) /\ (type = "withdraw_ok" /\ state = "process_withdrawal" => WithdrawOk)
                             /\ (WithdrawOk => type = "withdraw_ok")
  <2>1. ASSUME Drop
        PROVE  \E type : Take(type) /\ (type = "withdraw_ok" => state # "process_withdrawal")
    BY <2>1, HandledStates DEF Drop, WithdrawReplies
  <2>2. ASSUME WithdrawOk PROVE Take("withdraw_ok")
    BY <2>2 DEF WithdrawOk
  <2>3. ASSUME ~Drop, ~WithdrawOk
        PROVE  \E type : Take(type) /\ type # "withdraw_ok"
    BY <2>3 DEF AtmStep, InsertCard, TakeDigit, PinVerified, PinIncorrect, AskWithdrawal,
       AskBalance, WithdrawDenied, ShowBalance, CancelWithdrawal, Cancel
  <2>4. ASSUME NEW type, Take(type), WithdrawOk PROVE type = "withdraw_ok"
    BY <2>2, <2>4 DEF Take
  <2>. QED
    BY <2>1, <2>2, <2>3, <2>4
<1>3. Granted' = Granted - (IF type = "withdraw_ok" THEN 1 ELSE 0) /\ Granted \in Nat
      /\ Notes \in Nat
  BY <1>2, TakeGranted, CountsAreNumbers DEF Typed
<1>4. CASE WithdrawOk
  <2>1. Notes' = Notes + 1 /\ Granted' = Granted + (-1)
    BY <1>2, <1>3, <1>4, NotesAtAtm
  <2>. QED
    BY <1>1, <2>1, DebitedStays DEF Amount
<1>5. CASE ~WithdrawOk
  <2>1. Notes' = Notes + 0
    BY <1>3, <1>5, NotesAtAtm
  <2>2. PICK g \in {0, -1} : Granted' = Granted + g
    BY <1>3
  <2>. QED
    BY <1>1, <2>1, <2>2, DebitedStays DEF Amount
<1>. QED
  BY <1>4, <1>5

\* An answer that grants a withdrawal counts, others do not.
LEMMA CountGranted ==
  ASSUME QueuesOK, NEW m \in AtmMessages, atmQueue' = Append(atmQueue, m)
  PROVE  /\ m.type = "withdraw_ok" => Granted' = Granted + 1
         /\ m.type # "withdraw_ok" => Granted' = Granted + 0
<1> DEFINE T == {"withdraw_ok"}
<1>1. m.type = "withdraw_ok" <=> m.type \in T
  OBVIOUS
<1>2. Granted = Cardinality(Pending(atmQueue, T)) /\ Granted \in Nat
  BY CountsAreNumbers DEF Granted
<1>3. Granted' = Cardinality(Pending(Append(atmQueue, m), T))
  BY DEF Granted
<1> HIDE DEF T
<1>4. Cardinality(Pending(Append(atmQueue, m), T)) =
        Cardinality(Pending(atmQueue, T)) + (IF m.type \in T THEN 1 ELSE 0)
  BY CountAppend DEF QueuesOK
<1>. QED
  BY <1>1, <1>2, <1>3, <1>4

\* The bank debits each withdrawal that it grants.
LEMMA DebitedByBank == Typed /\ QueuesOK' /\ Debited /\ Bank => Debited'
<1> SUFFICES ASSUME Typed, QueuesOK', Debited, Bank PROVE Debited'
  OBVIOUS
<1> DEFINE m == Head(bankQueue)
<1>1. /\ QueuesOK /\ balance \in Nat /\ issued \in Nat /\ m \in BankMessages
      /\ Notes \in Nat /\ Granted \in Nat
  BY AtmAssumption, CountsAreNumbers, PendingTail DEF Bank, Typed, TypeOK, QueuesOK
<1>2. issued' = issued + 0 /\ hardwareQueue' = hardwareQueue
  BY <1>1 DEF Bank
<1>3. Notes' = Notes + 0
  BY <1>1, <1>2 DEF Notes
<1>4. ASSUME NEW r \in AtmMessages, Reply(r) \/ atmQueue' = atmQueue,
             r.type # "withdraw_ok", balance' = balance
      PROVE  Debited'
  <2>1. Granted' = Granted + 0
    BY <1>1, <1>4, CountGranted DEF Reply, Granted
  <2>. QED
    BY <1>1, <1>2, <1>3, <1>4, <2>1, DebitedStays DEF Amount
<1>5. /\ \A type \in {"pin_verified", "pin_incorrect", "withdraw_denied"} :
           Msg(type) \in AtmMessages /\ Msg(type).type # "withdraw_ok"
      /\ Msg("withdraw_ok") \in AtmMessages /\ Msg("withdraw_ok").type = "withdraw_ok"
      /\ MsgWith("balance", balance) \in AtmMessages
      /\ MsgWith("balance", balance).type # "withdraw_ok"
  <2>1. (\A type : Msg(type).type = type) /\ (\A type, v : MsgWith(type, v).type = type)
    BY DEF Msg, MsgWith
  <2>. QED
    BY <1>1, <2>1, MessagesHaveTypes DEF PinReplies, WithdrawReplies
<1>6. CASE BankClose(m) \/ Acknowledge(m)
  BY <1>4, <1>5, <1>6 DEF BankClose, Acknowledge
<1>7. CASE VerifyPin(m)
  BY <1>4, <1>5, <1>7 DEF VerifyPin
<1>8. CASE GetBalance(m)
  BY <1>4, <1>5, <1>8 DEF GetBalance
<1>9. CASE Withdraw(m) /\ balance < m.value
  BY <1>1, <1>4, <1>5, <1>9, ValuesHaveTypes DEF Withdraw, Amount
<1>10. CASE Withdraw(m) /\ balance >= m.value
  <2>1. m.value = Amount /\ Reply(Msg("withdraw_ok")) /\ balance' = balance - Amount
    BY <1>1, <1>10, ValuesHaveTypes DEF Withdraw
  <2>2. Granted' = Granted + 1
    BY <1>1, <1>5, <2>1, CountGranted DEF Reply
  <2>. QED
    BY <1>1, <1>2, <1>3, <2>1, <2>2, DebitedStays DEF Amount
<1>11. Withdraw(m) => balance < m.value \/ balance >= m.value
  BY <1>1, ValuesHaveTypes DEF Withdraw, Amount
<1>. QED
  BY <1>6, <1>7, <1>8, <1>9, <1>10, <1>11 DEF Bank

\* The interface issues each note once.
LEMMA DebitedByDisplay == Typed /\ QueuesOK' /\ Debited /\ Display => Debited'
<1> SUFFICES ASSUME Typed, QueuesOK', Debited, Display PROVE Debited'
  OBVIOUS
<1> DEFINE m == Head(hardwareQueue)
           T == {"issue_money"}
<1>1. /\ QueuesOK /\ balance \in Nat /\ issued \in Nat /\ m \in DisplayMessages
      /\ Notes \in Nat /\ Granted \in Nat
  BY AtmAssumption, CountsAreNumbers, PendingTail DEF Display, Typed, TypeOK, QueuesOK
<1>2. balance' = balance - 0 /\ Granted' = Granted + 0
  BY <1>1 DEF Display, Granted
<1>3. issued' = IF m.type = "issue_money" THEN issued + m.value ELSE issued
  BY DEF Display
<1>4. Notes' = Notes - (IF m.type \in T THEN 1 ELSE 0)
  BY CountTail DEF Display, Typed, QueuesOK, Notes
<1>5. CASE m.type = "issue_money"
  <2>1. issued' = issued + Amount /\ Notes' = Notes + (-1)
    BY <1>1, <1>3, <1>4, <1>5, ValuesHaveTypes
  <2>. QED
    BY <1>2, <2>1, DebitedStays DEF Amount
<1>6. CASE m.type # "issue_money"
  <2>1. issued' = issued + 0 /\ Notes' = Notes + 0
    BY <1>1, <1>3, <1>4, <1>6
  <2>. QED
    BY <1>2, <2>1, DebitedStays DEF Amount
<1>. QED
  BY <1>5, <1>6

\* Keys and close_queue move no money.
LEMMA DebitedElsewhere ==
  Typed /\ QueuesOK' /\ Debited /\ (AtmClose \/ PressKey \/ Quit \/ Closing) => Debited'
<1> SUFFICES ASSUME Typed, QueuesOK', Debited, AtmClose \/ PressKey \/ Quit \/ Closing
             PROVE  Debited'
  OBVIOUS
<1>1. /\ QueuesOK /\ balance \in Nat /\ issued \in Nat /\ Notes \in Nat /\ Granted \in Nat
      /\ \A type : Msg(type).type = type
      /\ \A type, v : MsgWith(type, v).type = type
  BY AtmAssumption, CountsAreNumbers DEF Typed, TypeOK, Msg, MsgWith
<1>2. issued' = issued + 0 /\ balance' = balance - 0
  BY <1>1 DEF AtmClose, PressKey, Quit, Closing, CloseBank, CloseAtm, CloseHardware, Return
<1>3. \/ hardwareQueue' = hardwareQueue
      \/ hardwareQueue' = Append(hardwareQueue, Msg("close_queue"))
  BY DEF AtmClose, PressKey, Quit, Closing, CloseBank, CloseAtm, CloseHardware, Return
<1>4. Notes' = Notes + 0
  <2>1. Msg("close_queue") \in DisplayMessages /\ Msg("close_queue").type # "issue_money"
    BY <1>1, MessagesHaveTypes
  <2>2. CASE hardwareQueue' = hardwareQueue
    BY <1>1, <2>2 DEF Notes
  <2>3. CASE hardwareQueue' = Append(hardwareQueue, Msg("close_queue"))
    BY <1>1, <2>1, <2>3, ShowNotes
  <2>. QED
    BY <1>3, <2>2, <2>3
<1>5. Granted' = Granted + 0
  <2>1. CASE AtmClose
    BY <1>1, <2>1, TakeGranted DEF AtmClose
  <2>2. CASE PressKey \/ CloseAtm
    <3>1. PICK m \in AtmMessages : m.type # "withdraw_ok" /\ atmQueue' = Append(atmQueue, m)
      BY <1>1, <2>2, MessagesHaveTypes DEF PressKey, CloseAtm, Digits
    <3>. QED
      BY <1>1, <3>1, CountGranted
  <2>3. CASE Quit \/ CloseBank \/ CloseHardware \/ Return
    <3>1. atmQueue' = atmQueue
      BY <2>3 DEF Quit, CloseBank, CloseHardware, Return
    <3>. QED
      BY <1>1, <3>1 DEF Granted
  <2>. QED
    BY <2>1, <2>2, <2>3 DEF Closing
<1>. QED
  BY <1>1, <1>2, <1>4, <1>5, DebitedStays DEF Amount

\* Every note issued, or that a message under way will issue, was debited: a
\* withdraw_ok is used once, even if it answers a withdrawal that was cancelled.
THEOREM MoneyWasDebited == Spec => []MoneyIssuedWasDebited
<1>1. Init => Debited
  <2> SUFFICES ASSUME Init PROVE Debited
    OBVIOUS
  <2>1. QueuesOK /\ Msg("display_enter_card").type \notin {"issue_money"}
    BY InitTyped DEF Typed, Msg
  <2>2. Granted = 0
    BY CountEmpty DEF Init, Granted
  <2>3. Notes = 0
    <3>1. hardwareQueue = <<Msg("display_enter_card")>>
      BY DEF Init
    <3>2. Pending(hardwareQueue, {"issue_money"}) = {}
      BY <2>1, <3>1 DEF Pending
    <3>. QED
      BY <3>2, FS_EmptySet DEF Notes
  <2>. QED
    BY <2>2, <2>3, AtmAssumption DEF Init, Debited, Amount
<1>2. Debited /\ UNCHANGED vars => Debited'
  BY DEF vars, Debited, Notes, Granted
<1>3. Typed /\ Typed' /\ Debited /\ [Next]_vars => Debited'
  BY <1>2, DebitedByAtm, DebitedByBank, DebitedByDisplay, DebitedElsewhere
  DEF Next, Atm, Typed
<1>4. Debited => MoneyIssuedWasDebited
  BY DEF Debited, Notes, Granted, MoneyIssuedWasDebited
<1>. QED
  BY <1>1, <1>3, <1>4, AlwaysTyped, PTL DEF Spec

-----------------------------------------------------------------------------
(* The cash machine in the executions of MCMachines, and the gumball machine,
   for every bound on its balls and quarters *)

MachinesNext == AtmNext \/ GumballNext \/ RemoteNext \/ WeatherNext
all == <<program, vars, gumball, remote, weather>>

\* The executions with the atm are executions of the atm, and the others leave
\* its variables alone.
LEMMA AtmRuns == FairMachinesSpec => Spec
<1>1. MachinesInit => Init
  BY DEF MachinesInit
<1>2. [MachinesNext]_all => [Next]_vars
  BY DEF MachinesNext, all, AtmNext, GumballNext, RemoteNext, WeatherNext
<1>. QED
  BY <1>1, <1>2, PTL DEF FairMachinesSpec, Spec, MachinesNext, all

-----------------------------------------------------------------------------
(* The gumball machine *)

\* The quarters and the balls are numbers, and QuartersBuyBalls is inductive
\* with that.
GumballInv ==
  /\ gumState \in {"NoQuarter", "HasQuarter", "SoldOut"}
  /\ count \in Nat /\ inserted \in Nat /\ ejected \in Nat
  /\ loaded \in Nat /\ released \in Nat /\ emptyRefills \in Nat
  /\ Gumball!QuartersBuyBalls

LEMMA GumballInit == MachinesInit => GumballInv
BY DEF MachinesInit, GumballInv, Gumball!Init, Gumball!initialize, Gumball!QuartersBuyBalls,
       Gumball!Held, Gumball!SellsNothing

\* One case for each method that changes the machine.
LEMMA GumballStep == GumballInv /\ Gumball!Next => GumballInv'
<1> SUFFICES ASSUME GumballInv, Gumball!Next PROVE GumballInv'
  OBVIOUS
<1> USE DEF GumballInv, Gumball!QuartersBuyBalls, Gumball!Held, Gumball!SellsNothing
<1>1. CASE Gumball!InsertQuarter
  BY <1>1 DEF Gumball!InsertQuarter
<1>2. CASE Gumball!EjectQuarter
  BY <1>2 DEF Gumball!EjectQuarter
<1>3. CASE Gumball!TurnCrank
  <2>1. /\ gumState = "HasQuarter"
        /\ gumState' = IF count' > 0 THEN "NoQuarter" ELSE "SoldOut"
        /\ inserted' = inserted /\ ejected' = ejected /\ loaded' = loaded
        /\ emptyRefills' = emptyRefills
        /\ count' = IF count # 0 THEN count - 1 ELSE 0
        /\ released' = released + count - count'
    BY <1>3 DEF Gumball!TurnCrank, Gumball!Dispense
  <2>2. CASE count # 0
    <3>1. count' = count - 1 /\ released' = released + 1
      BY <2>1, <2>2
    <3>. QED
      BY <2>1, <2>2, <3>1
  <2>3. CASE count = 0
    <3>1. count' = 0 /\ released' = released
      BY <2>1, <2>3
    <3>. QED
      BY <2>1, <2>3, <3>1
  <2>. QED
    BY <2>2, <2>3
<1>4. CASE Gumball!Refill
  <2>1. PICK balls \in 0 .. MaxBalls - count :
               /\ count' = count + balls /\ loaded' = loaded + balls
               /\ emptyRefills' = emptyRefills +
                    (IF balls = 0 /\ gumState = "SoldOut" THEN 1 ELSE 0)
    BY <1>4 DEF Gumball!Refill
  <2>2. balls \in Nat
    BY <2>1
  <2>3. /\ gumState' = IF gumState = "SoldOut" THEN "NoQuarter" ELSE gumState
        /\ inserted' = inserted /\ ejected' = ejected /\ released' = released
    BY <1>4 DEF Gumball!Refill
  <2>. QED
    BY <2>1, <2>2, <2>3
<1>. QED
  BY <1>1, <1>2, <1>3, <1>4 DEF Gumball!Next

\* Whoever uses the machine, and in whatever order: each ball that goes out was
\* bought with a quarter that is kept, none is lost, and a quarter buys nothing
\* only after a refill with nothing.
LEMMA QuartersBoughtBalls == FairMachinesSpec => []GumballInv
<1>1. GumballInv /\ UNCHANGED gumball => GumballInv'
  BY DEF GumballInv, gumball, Gumball!QuartersBuyBalls, Gumball!Held, Gumball!SellsNothing
<1>2. GumballInv /\ [MachinesNext]_all => GumballInv'
  BY <1>1, GumballStep DEF MachinesNext, all, AtmNext, GumballNext, RemoteNext, WeatherNext
<1>. QED
  BY <1>2, GumballInit, PTL DEF FairMachinesSpec, MachinesNext, all

-----------------------------------------------------------------------------

\* Nothing leaves a machine that was not paid for, for every balance and PIN
\* length, whatever is cancelled, refused, ejected or refilled.
THEOREM GoodsArePaidFor == FairMachinesSpec => []GoodsWerePaidFor
<1>1. GumballInv /\ MoneyIssuedWasDebited => GoodsWerePaidFor
  BY DEF GumballInv, GoodsWerePaidFor
<1>. QED
  BY <1>1, AtmRuns, MoneyWasDebited, QuartersBoughtBalls, PTL

-----------------------------------------------------------------------------
(* The remote control *)

\* Both buttons of a slot are of one pair, or neither is set.
ButtonsOf(slot) == \E pair \in Remote!Pairs :
                     onCommands[slot] = pair[1] /\ offCommands[slot] = pair[2]

RemoteInv ==
  /\ onCommands = [slot \in Remote!Slots |-> onCommands[slot]]
  /\ offCommands = [slot \in Remote!Slots |-> offCommands[slot]]
  /\ last \in [Remote!Slots -> {Unset, "on", "off"}]
  /\ \A slot \in Remote!Slots :
       (onCommands[slot] = Unset /\ last[slot] = Unset) \/ ButtonsOf(slot)
  /\ Remote!NoNullCommandIsCalled
  /\ Remote!DevicesFollowTheirButtons

\* What a command sets, no command of another pair sets.
LEMMA PairsAreApart ==
  /\ \A pair \in Remote!Pairs : DOMAIN pair[1] \subseteq Remote!Things
                                /\ DOMAIN pair[2] \subseteq Remote!Things
  /\ \A pair, other \in Remote!Pairs :
       pair[1] # other[1] =>
         (DOMAIN pair[1] \cup DOMAIN pair[2]) \cap (DOMAIN other[1] \cup DOMAIN other[2]) = {}
<1> DEFINE P == <<{"light"}, {"level"}, {"hottub", "temperature"}, {"stereo", "input", "volume"}>>
<1>1. /\ DOMAIN Remote!LightCommands[1] = {"light"}
      /\ DOMAIN Remote!LightCommands[2] = {"light"}
  BY DEF Remote!LightCommands
<1>2. /\ DOMAIN Remote!CeilingFanCommands[1] = {"level"}
      /\ DOMAIN Remote!CeilingFanCommands[2] = {"level"}
  BY DEF Remote!CeilingFanCommands
<1>3. /\ DOMAIN Remote!HottubCommands[1] = {"hottub", "temperature"}
      /\ DOMAIN Remote!HottubCommands[2] = {"hottub"}
  BY DEF Remote!HottubCommands
<1>4. /\ DOMAIN Remote!StereoCommands[1] = {"stereo", "input", "volume"}
      /\ DOMAIN Remote!StereoCommands[2] = {"stereo"}
  BY DEF Remote!StereoCommands
<1>5. \A pair \in Remote!Pairs :
        \/ pair = Remote!LightCommands \/ pair = Remote!CeilingFanCommands
        \/ pair = Remote!HottubCommands \/ pair = Remote!StereoCommands
  BY DEF Remote!Pairs
<1>6. \A pair \in Remote!Pairs : DOMAIN pair[1] \subseteq Remote!Things
                                 /\ DOMAIN pair[2] \subseteq Remote!Things
  BY <1>1, <1>2, <1>3, <1>4, <1>5 DEF Remote!Things
<1>7. ASSUME NEW pair \in Remote!Pairs, NEW other \in Remote!Pairs, pair[1] # other[1]
      PROVE  (DOMAIN pair[1] \cup DOMAIN pair[2]) \cap (DOMAIN other[1] \cup DOMAIN other[2]) = {}
  <2>1. pair # other
    BY <1>7
  <2>2. CASE pair = Remote!LightCommands
    BY <1>1, <1>2, <1>3, <1>4, <1>5, <2>1, <2>2
  <2>3. CASE pair = Remote!CeilingFanCommands
    BY <1>1, <1>2, <1>3, <1>4, <1>5, <2>1, <2>3
  <2>4. CASE pair = Remote!HottubCommands
    BY <1>1, <1>2, <1>3, <1>4, <1>5, <2>1, <2>4
  <2>5. CASE pair = Remote!StereoCommands
    BY <1>1, <1>2, <1>3, <1>4, <1>5, <2>1, <2>5
  <2>. QED
    BY <1>5, <2>2, <2>3, <2>4, <2>5
<1>. QED
  BY <1>6, <1>7

LEMMA RemoteInit == MachinesInit => RemoteInv
BY DEF MachinesInit, Remote!Init, RemoteInv, Remote!NoNullCommandIsCalled,
       Remote!DevicesFollowTheirButtons

\* Setting a slot gives it the buttons of one pair, and no button was pushed yet.
LEMMA SetCommandKeeps ==
  ASSUME RemoteInv, NEW slot, NEW pair \in Remote!Pairs, Remote!SetCommand(slot, pair)
  PROVE  RemoteInv'
<1>1. CASE slot \notin Remote!Slots
  BY <1>1 DEF RemoteInv, ButtonsOf, Remote!SetCommand, Remote!NoNullCommandIsCalled,
              Remote!DevicesFollowTheirButtons
<1>2. CASE slot \in Remote!Slots
  <2>1. /\ onCommands' = [onCommands EXCEPT ![slot] = pair[1]]
        /\ offCommands' = [offCommands EXCEPT ![slot] = pair[2]]
        /\ last' = [last EXCEPT ![slot] = Unset]
        /\ device' = device /\ nullCalled' = nullCalled
    BY <1>2 DEF Remote!SetCommand
  <2>2. /\ onCommands'[slot] = pair[1] /\ offCommands'[slot] = pair[2] /\ last'[slot] = Unset
        /\ \A s \in Remote!Slots : s # slot =>
             /\ onCommands'[s] = onCommands[s] /\ offCommands'[s] = offCommands[s]
             /\ last'[s] = last[s]
    BY <1>2, <2>1 DEF RemoteInv
  <2>3. /\ onCommands' = [s \in Remote!Slots |-> onCommands'[s]]
        /\ offCommands' = [s \in Remote!Slots |-> offCommands'[s]]
        /\ last' \in [Remote!Slots -> {Unset, "on", "off"}]
    BY <1>2, <2>1 DEF RemoteInv
  <2>4. \A s \in Remote!Slots :
          (onCommands'[s] = Unset /\ last'[s] = Unset) \/ ButtonsOf(s)'
    BY <2>2 DEF RemoteInv, ButtonsOf
  <2>5. Remote!NoNullCommandIsCalled' /\ Remote!DevicesFollowTheirButtons'
    BY <2>1, <2>2 DEF RemoteInv, Remote!NoNullCommandIsCalled, Remote!DevicesFollowTheirButtons
  <2>. QED
    BY <2>3, <2>4, <2>5 DEF RemoteInv
<1>. QED
  BY <1>1, <1>2

\* A button that is set executes a command; the slots whose devices it changes
\* are those of the same pair.
LEMMA ButtonKeeps ==
  ASSUME RemoteInv, NEW slot \in Remote!Slots, onCommands[slot] # Unset,
         NEW button \in {"on", "off"},
         Remote!Execute(IF button = "on" THEN onCommands[slot] ELSE offCommands[slot]),
         Remote!Remember(slot, button),
         onCommands' = onCommands, offCommands' = offCommands
  PROVE  RemoteInv'
<1> DEFINE command == IF button = "on" THEN onCommands[slot] ELSE offCommands[slot]
<1>1. PICK pair \in Remote!Pairs : onCommands[slot] = pair[1] /\ offCommands[slot] = pair[2]
  BY DEF RemoteInv, ButtonsOf
<1>2. command # Unset /\ DOMAIN command \subseteq Remote!Things
      /\ DOMAIN command \subseteq DOMAIN pair[1] \cup DOMAIN pair[2]
  BY <1>1, UnsetAssumption, PairsAreApart
<1>3. /\ ~nullCalled'
      /\ \A thing \in DOMAIN command : device'[thing] = command[thing]
      /\ \A thing \in Remote!Things : thing \notin DOMAIN command => device'[thing] = device[thing]
  <2>1. Remote!Execute(command)
    OBVIOUS
  <2>2. /\ device' = [thing \in Remote!Things |-> IF thing \in DOMAIN command THEN command[thing]
                                                 ELSE device[thing]]
        /\ nullCalled' = (nullCalled \/ command = Unset)
    BY <1>2, <2>1 DEF Remote!Execute
  <2>. HIDE DEF command
  <2>3. ~nullCalled'
    BY <1>2, <2>2 DEF RemoteInv, Remote!NoNullCommandIsCalled
  <2>. QED
    BY <1>2, <2>2, <2>3
<1>4. /\ last'[slot] = button
      /\ \A s \in Remote!Slots :
           s # slot => last'[s] = IF onCommands[s] = onCommands[slot] THEN Unset ELSE last[s]
      /\ last' \in [Remote!Slots -> {Unset, "on", "off"}]
  BY DEF RemoteInv, Remote!Remember
<1>5. \A s \in Remote!Slots :
        (onCommands'[s] = Unset /\ last'[s] = Unset) \/ ButtonsOf(s)'
  BY <1>1, <1>4 DEF RemoteInv, ButtonsOf
<1>6. Remote!DevicesFollowTheirButtons'
  <2> SUFFICES ASSUME NEW s \in Remote!Slots, last'[s] # Unset,
                      NEW thing,
                      thing \in DOMAIN (IF last'[s] = "on" THEN onCommands[s] ELSE offCommands[s])
               PROVE  device'[thing] = (IF last'[s] = "on" THEN onCommands[s]
                                        ELSE offCommands[s])[thing]
    BY DEF Remote!DevicesFollowTheirButtons
  <2>1. CASE s = slot
    BY <1>3, <1>4, <2>1
  <2>2. CASE s # slot
    <3>1. onCommands[s] # onCommands[slot] /\ last'[s] = last[s]
      BY <1>4, <2>2
    <3>2. PICK other \in Remote!Pairs : onCommands[s] = other[1] /\ offCommands[s] = other[2]
      BY <3>1 DEF RemoteInv, ButtonsOf
    <3>3. thing \in DOMAIN other[1] \cup DOMAIN other[2] /\ thing \in Remote!Things
      BY <3>2, PairsAreApart
    <3>4. thing \notin DOMAIN command
      BY <1>1, <1>2, <3>1, <3>2, <3>3, PairsAreApart
    <3>5. device'[thing] = device[thing]
      BY <1>3, <3>3, <3>4
    <3>. QED
      BY <3>1, <3>5 DEF RemoteInv, Remote!DevicesFollowTheirButtons
  <2>. QED
    BY <2>1, <2>2
<1>. QED
  BY <1>3, <1>4, <1>5, <1>6 DEF RemoteInv, Remote!NoNullCommandIsCalled

LEMMA RemoteStep == RemoteInv /\ Remote!Next => RemoteInv'
<1> SUFFICES ASSUME RemoteInv, Remote!Next PROVE RemoteInv'
  OBVIOUS
<1>1. PICK slot \in 0 .. NumSlots :
        \/ \E pair \in Remote!Pairs : Remote!SetCommand(slot, pair)
        \/ Remote!OnButtonWasPushed(slot) \/ Remote!OffButtonWasPushed(slot)
  BY DEF Remote!Next
<1>2. CASE UNCHANGED remote
  BY <1>2 DEF remote, RemoteInv, ButtonsOf, Remote!NoNullCommandIsCalled,
              Remote!DevicesFollowTheirButtons
<1>3. CASE Remote!OnButtonWasPushed(slot)
  <2>1. CASE Remote!Ignored(slot)
    BY <1>2, <1>3, <2>1 DEF Remote!OnButtonWasPushed, remote
  <2>2. CASE ~Remote!Ignored(slot)
    <3>1. slot \in Remote!Slots /\ onCommands[slot] # Unset
      BY <2>2 DEF Remote!Ignored
    <3>2. /\ Remote!Execute(onCommands[slot]) /\ Remote!Remember(slot, "on")
          /\ onCommands' = onCommands /\ offCommands' = offCommands
      BY <1>3, <2>2 DEF Remote!OnButtonWasPushed
    <3>. QED
      BY <3>1, <3>2, ButtonKeeps
  <2>. QED
    BY <2>1, <2>2
<1>4. CASE Remote!OffButtonWasPushed(slot)
  <2>1. CASE Remote!Ignored(slot)
    BY <1>2, <1>4, <2>1 DEF Remote!OffButtonWasPushed, remote
  <2>2. CASE ~Remote!Ignored(slot)
    <3>1. slot \in Remote!Slots /\ onCommands[slot] # Unset
      BY <2>2 DEF Remote!Ignored
    <3>2. /\ Remote!Execute(offCommands[slot]) /\ Remote!Remember(slot, "off")
          /\ onCommands' = onCommands /\ offCommands' = offCommands
      BY <1>4, <2>2 DEF Remote!OffButtonWasPushed
    <3>. QED
      BY <3>1, <3>2, ButtonKeeps
  <2>. QED
    BY <2>1, <2>2
<1>. QED
  BY <1>1, <1>3, <1>4, SetCommandKeeps
-----------------------------------------------------------------------------
(* The weather station *)

Readings == {[temp |-> 80, pressure |-> 3040], [temp |-> 82, pressure |-> 2920],
             [temp |-> 78, pressure |-> 2920]}

Temps == {measured[i].temp : i \in DOMAIN measured}

\* What measurements the forecast has seen: the first pressure is a constant.
Pressure(i) == IF i = 0 THEN 2992 ELSE measured[i].pressure

WeatherTyped ==
  /\ observers \in Seq({"current", "statistics", "forecast"})
  /\ measured \in Seq(Readings) /\ numReadings \in Nat
  /\ statistics.max \in Int /\ statistics.min \in Int /\ statistics.num \in Int

\* The displays are alive while measurements are to come; the extremes are of
\* the readings, or the values they begin at.
WeatherInv ==
  /\ WeatherTyped
  /\ Len(measured) < MaxReadings =>
       \A i \in DOMAIN observers : observers[i] \in alive
  /\ Weather!NotifiedDisplaysAreAlive
  /\ statistics.num = numReadings + Len(measured)
  /\ measured = <<>> => statistics.max = 0 /\ statistics.min = 200
  /\ measured # <<>> => /\ current = measured[Len(measured)].temp
                        /\ statistics.max \in Temps /\ statistics.min \in Temps
                        /\ forecast.last = Pressure(Len(measured) - 1)
  /\ \A t \in Temps : t <= statistics.max /\ statistics.min <= t
  /\ forecast = [now |-> Pressure(Len(measured)), last |-> forecast.last]

\* There is at most one greatest, and one least, of some numbers.
LEMMA Extremes ==
  ASSUME NEW S \in SUBSET Int, NEW n \in S
  PROVE  /\ (\A t \in S : t <= n) => Weather!Max(S) = n
         /\ (\A t \in S : n <= t) => Weather!Min(S) = n
<1>1. ASSUME \A t \in S : t <= n PROVE Weather!Max(S) = n
  <2>1. \A x \in S : (\A y \in S : x >= y) => x = n
    BY <1>1
  <2>2. \A y \in S : n >= y
    BY <1>1
  <2>. QED
    BY <2>1, <2>2 DEF Weather!Max
<1>2. ASSUME \A t \in S : n <= t PROVE Weather!Min(S) = n
  <2>1. \A x \in S : (\A y \in S : x <= y) => x = n
    BY <1>2
  <2>. QED
    BY <1>2, <2>1 DEF Weather!Min
<1>. QED
  BY <1>1, <1>2

LEMMA WeatherInit == MachinesInit => WeatherInv
<1> SUFFICES ASSUME MachinesInit PROVE WeatherInv
  OBVIOUS
<1>1. /\ observers = <<>> /\ measured = <<>> /\ undefined = FALSE
      /\ numReadings \in {0, 7}
      /\ statistics = [max |-> 0, min |-> 200, sum |-> 0, num |-> numReadings]
      /\ forecast = [now |-> 2992, last |-> 0]
  BY DEF MachinesInit, Weather!Init
<1>2. /\ Len(measured) = 0 /\ DOMAIN measured = {} /\ DOMAIN observers = {}
      /\ observers \in Seq({"current", "statistics", "forecast"}) /\ measured \in Seq(Readings)
  BY <1>1
<1>. QED
  BY <1>1, <1>2
  DEF WeatherInv, WeatherTyped, Weather!NotifiedDisplaysAreAlive, Temps, Pressure

\* A new display is alive, and the others stay so.
LEMMA ConstructKeeps ==
  ASSUME WeatherInv, Weather!Construct
  PROVE  WeatherInv'
<1> DEFINE d == Weather!Displays[Len(observers) + 1]
<1>1. /\ Len(observers) < Len(Weather!Displays)
      /\ observers' = Append(observers, d) /\ alive' = alive \cup {d}
      /\ UNCHANGED <<current, statistics, forecast, undefined, numReadings, measured>>
  BY DEF Weather!Construct
<1>2. d \in {"current", "statistics", "forecast"}
  <2>1. Len(observers) \in Nat /\ Len(Weather!Displays) = 3
    BY DEF WeatherInv, WeatherTyped, Weather!Displays
  <2>2. Len(observers) + 1 \in {1, 2, 3}
    BY <1>1, <2>1
  <2>. QED
    BY <2>2 DEF Weather!Displays
<1>. HIDE DEF d
<1>3. observers' \in Seq({"current", "statistics", "forecast"})
  BY <1>1, <1>2 DEF WeatherInv, WeatherTyped
<1>4. \A i \in DOMAIN observers' :
        \/ observers'[i] = d
        \/ i \in DOMAIN observers /\ observers'[i] = observers[i]
  BY <1>1, <1>2 DEF WeatherInv, WeatherTyped
<1>. QED
  BY <1>1, <1>3, <1>4
  DEF WeatherInv, WeatherTyped, Weather!NotifiedDisplaysAreAlive, Temps, Pressure

\* A reading is at most, or at least, the extreme that it leaves.
LEMMA SetMeasurementsKeeps ==
  ASSUME WeatherInv, NEW m \in Readings, Weather!SetMeasurements(m)
  PROVE  WeatherInv'
<1>1. /\ Len(measured) < MaxReadings
      /\ current' = m.temp /\ measured' = Append(measured, m)
      /\ forecast' = [now |-> m.pressure, last |-> forecast.now]
      /\ observers' = observers /\ alive' = alive /\ numReadings' = numReadings
  BY DEF Weather!SetMeasurements, Weather!UpdateCurrent, Weather!UpdateForecast
<1>2. /\ statistics'.num = statistics.num + 1
      /\ statistics'.max = IF m.temp > statistics.max THEN m.temp ELSE statistics.max
      /\ statistics'.min = IF m.temp < statistics.min THEN m.temp ELSE statistics.min
  BY DEF Weather!SetMeasurements, Weather!UpdateStatistics
<1>3. m.temp \in 0 .. 200
  BY DEF Readings
<1>4. /\ measured' \in Seq(Readings) /\ Len(measured') = Len(measured) + 1
      /\ Len(measured) \in Nat /\ measured'[Len(measured) + 1] = m
      /\ \A i \in 1 .. Len(measured) : measured'[i] = measured[i]
      /\ DOMAIN measured = 1 .. Len(measured) /\ DOMAIN measured' = 1 .. Len(measured) + 1
      /\ measured' # <<>> /\ (measured = <<>> => Len(measured) = 0)
      /\ (measured # <<>> => Len(measured) # 0)
  BY <1>1 DEF WeatherInv, WeatherTyped
<1>5. Temps' = Temps \cup {m.temp}
  <2>1. \A t \in Temps' : t \in Temps \cup {m.temp}
    <3> SUFFICES ASSUME NEW i \in 1 .. Len(measured) + 1
                 PROVE  measured'[i].temp \in Temps \cup {m.temp}
      BY <1>4 DEF Temps
    <3>1. CASE i = Len(measured) + 1
      BY <1>4, <3>1
    <3>2. CASE i # Len(measured) + 1
      <4>1. i \in 1 .. Len(measured)
        BY <1>4, <3>2
      <4>. QED
        BY <1>4, <4>1 DEF Temps
    <3>. QED
      BY <3>1, <3>2
  <2>2. \A t \in Temps : t \in Temps'
    <3> SUFFICES ASSUME NEW i \in 1 .. Len(measured)
                 PROVE  measured[i].temp \in Temps'
      BY <1>4 DEF Temps
    <3>1. i \in 1 .. Len(measured) + 1 /\ measured'[i] = measured[i]
      BY <1>4
    <3>. QED
      BY <1>4, <3>1 DEF Temps
  <2>3. m.temp \in Temps'
    <3>1. Len(measured) + 1 \in 1 .. Len(measured) + 1
      BY <1>4
    <3>. QED
      BY <1>4, <3>1 DEF Temps
  <2>. QED
    BY <2>1, <2>2, <2>3
<1>6. Temps \subseteq Int /\ (measured = <<>> => Temps = {})
  <2>1. \A i \in 1 .. Len(measured) : measured[i].temp \in Int
    BY DEF WeatherInv, WeatherTyped, Readings
  <2>. QED
    BY <1>4, <2>1 DEF Temps
<1>7. /\ statistics.max \in Int /\ statistics.min \in Int /\ statistics.num \in Int
      /\ numReadings \in Nat
  BY DEF WeatherInv, WeatherTyped
<1>8. /\ statistics'.max \in Temps' /\ statistics'.min \in Temps'
      /\ \A t \in Temps' : t <= statistics'.max /\ statistics'.min <= t
  <2>1. CASE measured = <<>>
    <3>1. Temps' = {m.temp} /\ statistics.max = 0 /\ statistics.min = 200
      BY <1>5, <1>6, <2>1 DEF WeatherInv
    <3>2. statistics'.max = m.temp /\ statistics'.min = m.temp
      BY <1>2, <1>3, <3>1
    <3>. QED
      BY <1>3, <3>1, <3>2
  <2>2. CASE measured # <<>>
    <3>1. /\ statistics.max \in Temps /\ statistics.min \in Temps
          /\ \A t \in Temps : t <= statistics.max /\ statistics.min <= t
      BY <2>2 DEF WeatherInv
    <3>2. m.temp \in Int
      BY <1>3
    <3>. QED
      BY <1>2, <1>5, <1>6, <1>7, <3>1, <3>2
  <2>. QED
    BY <2>1, <2>2
<1>9. forecast.now = Pressure(Len(measured))
  BY DEF WeatherInv
<1>10. /\ Pressure(Len(measured))' = m.pressure
       /\ forecast' = [now |-> Pressure(Len(measured))', last |-> forecast'.last]
       /\ forecast'.last = Pressure(Len(measured) - 1)'
  <2>1. Pressure(Len(measured))' = m.pressure
    BY <1>4 DEF Pressure
  <2>2. Len(measured') - 1 = Len(measured)
    BY <1>4
  <2>3. Pressure(Len(measured) - 1)' = Pressure(Len(measured))
    <3>1. CASE Len(measured) = 0
      BY <2>2, <3>1 DEF Pressure
    <3>2. CASE Len(measured) # 0
      <4>1. Len(measured) \in 1 .. Len(measured)
        BY <1>4, <3>2
      <4>. QED
        BY <1>4, <2>2, <3>2, <4>1 DEF Pressure
    <3>. QED
      BY <3>1, <3>2
  <2>. QED
    BY <1>1, <1>9, <2>1, <2>3
<1>11. ~undefined'
  BY <1>1 DEF Weather!SetMeasurements, WeatherInv, Weather!NotifiedDisplaysAreAlive
<1>12. statistics'.num = numReadings' + Len(measured')
  BY <1>1, <1>2, <1>4, <1>7 DEF WeatherInv
<1>13. WeatherTyped'
  <2>1. /\ statistics'.max \in Int /\ statistics'.min \in Int
        /\ statistics'.num \in Int
    BY <1>2, <1>3, <1>7
  <2>. QED
    BY <1>1, <1>4, <2>1 DEF WeatherInv, WeatherTyped
<1>14. Len(measured') < MaxReadings => \A i \in DOMAIN observers' : observers'[i] \in alive'
  BY <1>1 DEF WeatherInv
<1>15. current' = measured'[Len(measured')].temp
  BY <1>1, <1>4
<1>. QED
  BY <1>4, <1>8, <1>10, <1>11, <1>12, <1>13, <1>14, <1>15
  DEF WeatherInv, Weather!NotifiedDisplaysAreAlive

\* After the last measurement, a display may go.
LEMMA ResetKeeps ==
  ASSUME WeatherInv, Weather!Reset
  PROVE  WeatherInv'
<1>1. /\ Len(measured) = MaxReadings
      /\ UNCHANGED <<observers, current, statistics, forecast, undefined, numReadings, measured>>
  BY DEF Weather!Reset, Weather!Destroy
<1>2. ~(Len(measured) < MaxReadings)
  BY <1>1 DEF WeatherInv, WeatherTyped
<1>. QED
  BY <1>1, <1>2
  DEF WeatherInv, WeatherTyped, Weather!NotifiedDisplaysAreAlive, Temps, Pressure

LEMMA WeatherShown == WeatherInv => Weather!DisplaysShowTheData
<1> SUFFICES ASSUME WeatherInv, measured # <<>> PROVE Weather!DisplaysShowTheData
  BY DEF Weather!DisplaysShowTheData
<1>1. Temps \subseteq Int
  <2>1. \A i \in DOMAIN measured : measured[i].temp \in Int
    BY DEF WeatherInv, WeatherTyped, Readings
  <2>. QED
    BY <2>1 DEF Temps
<1>2. statistics.max = Weather!Max(Temps) /\ statistics.min = Weather!Min(Temps)
  BY <1>1, Extremes DEF WeatherInv
<1>3. /\ current = measured[Len(measured)].temp
      /\ statistics.num = numReadings + Len(measured)
      /\ forecast = [now |-> Pressure(Len(measured)), last |-> Pressure(Len(measured) - 1)]
  BY DEF WeatherInv
<1>. QED
  BY <1>2, <1>3 DEF Weather!DisplaysShowTheData, Temps, Pressure

LEMMA WeatherStep == WeatherInv /\ Weather!Next => WeatherInv'
BY ConstructKeeps, SetMeasurementsKeeps, ResetKeeps DEF Weather!Next, Readings

-----------------------------------------------------------------------------

\* In every execution, for every number of slots and of measurements: no button
\* executes a command that was never set, and a device is as the last of its
\* buttons left it; no display that is gone is updated, and the displays show
\* what was measured.
THEOREM ReceiversInformed == FairMachinesSpec => []ReceiversAreInformed
<1>1. RemoteInv /\ WeatherInv => ReceiversAreInformed
  BY WeatherShown DEF RemoteInv, WeatherInv, ReceiversAreInformed
<1>2. RemoteInv /\ UNCHANGED remote => RemoteInv'
  BY DEF remote, RemoteInv, ButtonsOf, Remote!NoNullCommandIsCalled,
         Remote!DevicesFollowTheirButtons
<1>3. WeatherInv /\ UNCHANGED weather => WeatherInv'
  BY DEF weather, WeatherInv, WeatherTyped, Weather!NotifiedDisplaysAreAlive, Temps, Pressure
<1>4. RemoteInv /\ [MachinesNext]_all => RemoteInv'
  BY <1>2, RemoteStep DEF MachinesNext, all, AtmNext, GumballNext, RemoteNext, WeatherNext
<1>5. WeatherInv /\ [MachinesNext]_all => WeatherInv'
  BY <1>3, WeatherStep DEF MachinesNext, all, AtmNext, GumballNext, RemoteNext, WeatherNext
<1>. QED
  BY <1>1, <1>4, <1>5, RemoteInit, WeatherInit, PTL DEF FairMachinesSpec, MachinesNext, all
==============================================================================
