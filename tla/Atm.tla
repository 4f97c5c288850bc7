--------------------------------- MODULE Atm ---------------------------------
(***************************************************************************)
(* 4.x5.ATM: three threads, each a loop around a message queue of          *)
(* messaging.hpp, and main(), which turns keys into messages.  A handler   *)
(* runs on one thread, changes that thread's own fields and pushes to the  *)
(* queues of others, and is one step.  A queue is the sequence of its      *)
(* messages: push() and wait_and_pop() hold its one mutex throughout.      *)
(* That a handler sends before or after it assigns makes no difference:    *)
(* no other thread reads its fields, and each queue gets its messages in   *)
(* the handler's order.                                                    *)
(*                                                                         *)
(* A PIN is reduced to its digits being right or wrong at their place.     *)
(* clear_last_pressed has a handler and no key that sends it.              *)
(***************************************************************************)
EXTENDS Integers, Sequences, FiniteSets

CONSTANTS PinLength, \* 4 in the code
          InitialBalance, \* 199 in the code
          MaxKeys,   \* bound: the keys pressed before 'q'
          MaxAhead   \* bound: a key is pressed when fewer messages wait

ASSUME AtmAssumption == PinLength \in Nat \ {0} /\ {InitialBalance, MaxKeys, MaxAhead} \subseteq Nat

Amount == 50          \* 'w' asks for this amount

VARIABLES atmQueue, bankQueue, hardwareQueue, \* the three _incoming queues
          state,                   \* the atm's state function
          pin,                     \* _pin
          balance,                 \* the bank's _balance
          running,                 \* the threads still in run()
          input, keys,             \* where main() is, the keys it has read
          issued,                  \* auxiliary: the money issued
          abandoned,               \* auxiliary: a cancel while verifying_pin
          credit  \* auxiliary: the right PINs sent less the sessions admitted

session == <<state, pin>>
main == <<input, keys>>
pins == <<abandoned, credit>>
vars == <<atmQueue, bankQueue, hardwareQueue, session, balance, running, main,
          issued, pins>>

RightPin == [i \in 1 .. PinLength |-> "right"]

Msg(type) == [type |-> type, value |-> 0]
MsgWith(type, v) == [type |-> type, value |-> v]

Init == /\ atmQueue = <<>> /\ bankQueue = <<>>
        /\ hardwareQueue = <<Msg("display_enter_card")>>
        /\ state = "waiting_for_card"
        /\ pin = <<>>
        /\ balance = InitialBalance
        /\ running = {"atm", "bank", "hardware"}
        /\ input = "keys" /\ keys = 0
        /\ issued = 0
        /\ abandoned = FALSE /\ credit = 0

-----------------------------------------------------------------------------
(* The atm thread.  A message that the current state function does not     *)
(* handle is dropped by dispatch().                                        *)

Take(type) == /\ "atm" \in running
              /\ atmQueue # <<>> /\ Head(atmQueue).type = type
              /\ atmQueue' = Tail(atmQueue)

ToBank(m) == bankQueue' = Append(bankQueue, m)

Show(ms) == hardwareQueue' = hardwareQueue \o ms

NoBank == UNCHANGED bankQueue
NoShow == UNCHANGED hardwareQueue

Enter(s) == state' = s /\ UNCHANGED pin

\* done_processing() and, with no message between, waiting_for_card().
Finish(ms) ==
  /\ Enter("waiting_for_card")
  /\ Show(ms \o <<Msg("eject_card"), Msg("display_enter_card")>>)

OfferActions(ms) ==
  /\ Enter("wait_for_action")
  /\ Show(Append(ms, Msg("display_withdrawal_options")))

InsertCard ==
  /\ state = "waiting_for_card" /\ Take("card_inserted")
  /\ state' = "getting_pin" /\ pin' = <<>>
  /\ Show(<<Msg("display_enter_pin")>>) /\ NoBank
  /\ UNCHANGED pins

TakeDigit ==
  /\ state = "getting_pin" /\ Take("digit_pressed")
  /\ pin' = Append(pin, Head(atmQueue).value)
  /\ IF Len(pin') = PinLength
     THEN ToBank([type |-> "verify_pin", value |-> pin']) /\ state' = "verifying_pin"
     ELSE NoBank /\ state' = state
  /\ credit' = credit + (IF pin' = RightPin THEN 1 ELSE 0)
  /\ NoShow /\ UNCHANGED abandoned

PinVerified ==
  /\ state = "verifying_pin" /\ Take("pin_verified")
  /\ OfferActions(<<>>) /\ NoBank
  /\ credit' = credit - 1 /\ UNCHANGED abandoned

PinIncorrect ==
  /\ state = "verifying_pin" /\ Take("pin_incorrect")
  /\ Finish(<<Msg("display_pin_incorrect_message")>>) /\ NoBank
  /\ UNCHANGED pins

AskWithdrawal ==
  /\ state = "wait_for_action" /\ Take("withdraw_pressed")
  /\ Enter("process_withdrawal")
  /\ ToBank(MsgWith("withdraw", Amount)) /\ NoShow
  /\ UNCHANGED pins

AskBalanceNobody == \* mutant: the request is not sent
  /\ state = "wait_for_action" /\ Take("balance_pressed")
  /\ Enter("process_balance")
  /\ NoBank /\ NoShow /\ UNCHANGED pins

AskBalance ==
  /\ state = "wait_for_action" /\ Take("balance_pressed")
  /\ Enter("process_balance")
  /\ ToBank(Msg("get_balance")) /\ NoShow
  /\ UNCHANGED pins

WithdrawOk ==
  /\ state = "process_withdrawal" /\ Take("withdraw_ok")
  /\ Finish(<<MsgWith("issue_money", Amount)>>)
  /\ ToBank(MsgWith("withdrawal_processed", Amount))
  /\ UNCHANGED pins

WithdrawDenied ==
  /\ state = "process_withdrawal" /\ Take("withdraw_denied")
  /\ Finish(<<Msg("display_insufficient_funds")>>) /\ NoBank
  /\ UNCHANGED pins

ShowBalance ==
  /\ state = "process_balance" /\ Take("balance")
  /\ OfferActions(<<MsgWith("display_balance", Head(atmQueue).value)>>) /\ NoBank
  /\ UNCHANGED pins

CancelWithdrawal ==
  /\ state = "process_withdrawal" /\ Take("cancel_pressed")
  /\ Finish(<<Msg("display_withdrawal_cancelled")>>)
  /\ ToBank(MsgWith("cancel_withdrawal", Amount))
  /\ UNCHANGED pins

Cancel ==
  /\ state \in {"getting_pin", "verifying_pin", "wait_for_action", "process_balance"}
  /\ Take("cancel_pressed")
  /\ Finish(<<>>) /\ NoBank
  /\ abandoned' = (abandoned \/ state = "verifying_pin") /\ UNCHANGED credit

Handled == \* what the handle<> chain of each state function names
  [waiting_for_card   |-> {"card_inserted"},
   getting_pin        |-> {"digit_pressed", "cancel_pressed"},
   verifying_pin      |-> {"pin_verified", "pin_incorrect", "cancel_pressed"},
   wait_for_action    |-> {"withdraw_pressed", "balance_pressed", "cancel_pressed"},
   process_withdrawal |-> {"withdraw_ok", "withdraw_denied", "cancel_pressed"},
   process_balance    |-> {"balance", "cancel_pressed"}]

Drop ==
  /\ \E type \in {"card_inserted", "digit_pressed", "cancel_pressed", "balance",
                  "withdraw_pressed", "balance_pressed", "pin_verified",
                  "pin_incorrect", "withdraw_ok", "withdraw_denied"} :
       type \notin Handled[state] /\ Take(type)
  /\ NoBank /\ NoShow /\ UNCHANGED <<session, pins>>

AtmStep ==
  /\ \/ InsertCard \/ TakeDigit \/ PinVerified \/ PinIncorrect \/ AskWithdrawal
     \/ AskBalance \/ WithdrawOk \/ WithdrawDenied \/ ShowBalance
     \/ CancelWithdrawal \/ Cancel \/ Drop
  /\ UNCHANGED <<balance, running, main, issued>>

AtmClose == \* dispatcher::dispatch throws close_queue, run() ends
  /\ Take("close_queue")
  /\ running' = running \ {"atm"}
  /\ UNCHANGED <<bankQueue, hardwareQueue, session, balance, main, issued, pins>>

Atm == AtmStep \/ AtmClose

-----------------------------------------------------------------------------
(* The bank thread *)

Reply(m) == atmQueue' = Append(atmQueue, m)

VerifyPinStart(m) == \* mutant: compares only the first digit
  /\ m.type = "verify_pin"
  /\ Reply(Msg(IF m.value[1] = "right" THEN "pin_verified" ELSE "pin_incorrect"))
  /\ UNCHANGED balance

VerifyPin(m) ==
  /\ m.type = "verify_pin"
  /\ Reply(Msg(IF m.value = RightPin THEN "pin_verified" ELSE "pin_incorrect"))
  /\ UNCHANGED balance

WithdrawTwice(m) == \* mutant: the balance is not debited
  /\ m.type = "withdraw"
  /\ Reply(Msg(IF balance >= m.value THEN "withdraw_ok" ELSE "withdraw_denied"))
  /\ UNCHANGED balance

WithdrawUnchecked(m) == \* mutant: the test of the balance is lost
  /\ m.type = "withdraw"
  /\ Reply(Msg("withdraw_ok"))
  /\ balance' = balance - m.value

Withdraw(m) ==
  /\ m.type = "withdraw"
  /\ IF balance >= m.value
     THEN Reply(Msg("withdraw_ok")) /\ balance' = balance - m.value
     ELSE Reply(Msg("withdraw_denied")) /\ UNCHANGED balance

GetBalance(m) ==
  /\ m.type = "get_balance"
  /\ Reply(MsgWith("balance", balance))
  /\ UNCHANGED balance

\* The handlers of withdrawal_processed and cancel_withdrawal are empty.
Acknowledge(m) ==
  /\ m.type \in {"withdrawal_processed", "cancel_withdrawal"}
  /\ UNCHANGED <<atmQueue, balance>>

BankClose(m) ==
  /\ m.type = "close_queue"
  /\ running' = running \ {"bank"}
  /\ UNCHANGED <<atmQueue, balance>>

Bank ==
  /\ "bank" \in running
  /\ bankQueue # <<>>
  /\ bankQueue' = Tail(bankQueue)
  /\ LET m == Head(bankQueue)
     IN \/ BankClose(m)
        \/ /\ VerifyPin(m) \/ Withdraw(m) \/ GetBalance(m) \/ Acknowledge(m)
           /\ UNCHANGED running
  /\ UNCHANGED <<hardwareQueue, session, main, issued, pins>>

-----------------------------------------------------------------------------
(* The interface thread prints: the model keeps the money it issues   *)

Display ==
  /\ "hardware" \in running
  /\ hardwareQueue # <<>>
  /\ hardwareQueue' = Tail(hardwareQueue)
  /\ LET m == Head(hardwareQueue)
     IN /\ issued' = IF m.type = "issue_money" THEN issued + m.value ELSE issued
        /\ running' = IF m.type = "close_queue" THEN running \ {"hardware"}
                                               ELSE running
  /\ UNCHANGED <<atmQueue, bankQueue, session, balance, main, pins>>

-----------------------------------------------------------------------------
(* main(): one message for each key, then one close_queue for each machine *)

PressKey ==
  /\ input = "keys" /\ keys < MaxKeys /\ Len(atmQueue) < MaxAhead
  /\ keys' = keys + 1
  /\ \E m \in {MsgWith("digit_pressed", "right"), MsgWith("digit_pressed", "wrong"),
               Msg("balance_pressed"), Msg("withdraw_pressed"),
               Msg("cancel_pressed"), Msg("card_inserted")} :
       atmQueue' = Append(atmQueue, m)
  /\ UNCHANGED <<bankQueue, hardwareQueue, session, balance, running, input, issued,
                 pins>>

Quit ==
  /\ input = "keys"
  /\ input' = "closeBank"
  /\ UNCHANGED <<atmQueue, bankQueue, hardwareQueue, session, balance, running, keys,
                 issued, pins>>

CloseBank ==
  /\ input = "closeBank" /\ input' = "closeAtm"
  /\ bankQueue' = Append(bankQueue, Msg("close_queue"))
  /\ UNCHANGED <<atmQueue, hardwareQueue, session, balance, running, keys, issued,
                 pins>>

CloseAtmNever == \* mutant: machine.done() is missing
  /\ input = "closeAtm" /\ input' = "closeHardware"
  /\ UNCHANGED <<atmQueue, bankQueue, hardwareQueue, session, balance, running, keys,
                 issued, pins>>

CloseAtm ==
  /\ input = "closeAtm" /\ input' = "closeHardware"
  /\ atmQueue' = Append(atmQueue, Msg("close_queue"))
  /\ UNCHANGED <<bankQueue, hardwareQueue, session, balance, running, keys, issued,
                 pins>>

CloseHardware ==
  /\ input = "closeHardware" /\ input' = "join"
  /\ hardwareQueue' = Append(hardwareQueue, Msg("close_queue"))
  /\ UNCHANGED <<atmQueue, bankQueue, session, balance, running, keys, issued, pins>>

Return == \* the three join()s
  /\ input = "join" /\ running = {}
  /\ input' = "returned"
  /\ UNCHANGED <<atmQueue, bankQueue, hardwareQueue, session, balance, running, keys,
                 issued, pins>>

Closing == CloseBank \/ CloseAtm \/ CloseHardware \/ Return

Next == Atm \/ Bank \/ Display \/ PressKey \/ Quit \/ Closing

Spec == Init /\ [][Next]_vars

\* Each thread runs on while it has a message; nobody has to press a key.
FairSpec == Spec /\ WF_vars(Atm) /\ WF_vars(Bank) /\ WF_vars(Display)
                 /\ WF_vars(Closing)

-----------------------------------------------------------------------------
(* Properties *)

\* Each variable keeps its type; the unsigned _balance never wraps below 0.
TypeOK ==
  /\ balance \in 0 .. InitialBalance
  /\ state \in DOMAIN Handled
  /\ pin \in Seq({"right", "wrong"}) /\ Len(pin) \in 0 .. PinLength
  /\ running \subseteq {"atm", "bank", "hardware"}
  /\ issued \in Nat /\ keys \in 0 .. MaxKeys

Pending(q, types) == {i \in DOMAIN q : q[i].type \in types}

\* Every note that leaves the machine, or is on its way out, was debited: a
\* withdraw_ok is used once, even when it answers a withdrawal that was
\* cancelled and reaches a later one (lines 195-218 and 396-408).
MoneyIssuedWasDebited ==
  issued + Amount * (Cardinality(Pending(hardwareQueue, {"issue_money"}))
                     + Cardinality(Pending(atmQueue, {"withdraw_ok"})))
    <= InitialBalance - balance

Coming(request, replies) == \/ Pending(bankQueue, {request}) # {}
                            \/ Pending(atmQueue, replies) # {}

\* While the atm waits for the bank, the request or an answer it will accept
\* is in a queue, if only that of a bank that has stopped: an answer dropped in
\* another state is never the one it waits for.
AwaitedReplyIsComing ==
  /\ state = "verifying_pin" => Coming("verify_pin", {"pin_verified", "pin_incorrect"})
  /\ state = "process_withdrawal" => Coming("withdraw", {"withdraw_ok", "withdraw_denied"})
  /\ state = "process_balance" => Coming("get_balance", {"balance"})

\* The atm offers actions only to a session whose PIN the bank has found right,
\* unless an earlier verification was cancelled: its late answer may be taken for
\* that of the new session (lines 260-279 accept any pin_verified).
SessionsFollowTheirPin ==
  state \in {"wait_for_action", "process_withdrawal", "process_balance"}
    => abandoned \/ pin = RightPin

\* Whatever is cancelled, refused or answered late, the sessions that get to the
\* actions are never more than the right PINs that were entered: an answer that
\* outlives its session admits one later session at most, and where no right
\* PIN was ever entered there is none.
RightPinsAdmitOnce == credit >= 0

\* Actions follow a right PIN: that of the session or, after a verification was
\* abandoned, one that has admitted no other.
ActionsFollowARightPin == SessionsFollowTheirPin /\ RightPinsAdmitOnce

Quiet == /\ atmQueue = <<>> /\ bankQueue = <<>> /\ hardwareQueue = <<>>
         /\ running = {"atm", "bank", "hardware"}
         /\ state # "process_withdrawal"

\* When no message is under way and no withdrawal is being processed, the
\* account was charged what was issued, though the display says "Withdrawal
\* cancelled" (line 517).  The code breaks it: the bank's handler of
\* cancel_withdrawal is empty (lines 418-421).
CancelledWithdrawalIsNotCharged ==
  Quiet => InitialBalance - balance = issued

\* After 'q' the three machines stop and main() returns, whatever requests
\* and answers are under way and though the bank is closed first.
QuitEndsTheProgram == (input # "keys") ~> (input = "returned")
==============================================================================
