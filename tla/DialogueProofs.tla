--------------------------- MODULE DialogueProofs ---------------------------
(***************************************************************************)
(* The safety of Dialogue and its implementation of Display, for any set   *)
(* of answers, any number of progress lines and any number of faults.      *)
(***************************************************************************)
EXTENDS Dialogue, TLAPS

LastWords == {"finish", "fail", "close"}
Connected == {"greeting", "working", "tail", "failing", "waiting", "exited", "asking",
              "dropping", "reaping"}

(* Where engine and window are in their lives *)
Lives ==
  /\ spc \in {"idle", "prepared"} => form = "none"
  /\ spc \in {"idle", "prepared", "connecting"} => engineEnd = "none"
  /\ spc \in {"idle", "prepared", "connecting", "greeting"} => said = <<>>
  /\ spc \in Connected => engineEnd = "open"
  /\ spc = "exited" => form = "exited"
  /\ spc = "idle" => ~marked
  /\ engineEnd # "none" => form \notin {"none", "starting"}
  /\ form \in {"none", "starting"} => serverEnd = "none" /\ loop = "none"

(* One question at most, in front of everything else; one answer to it. *)
OneQuestion ==
  /\ \A i \in 1..Len(said) : said[i] = "prompt" => i = 1
  /\ reply # NoAnswer => reply = answer
  /\ answer # NoAnswer => shown >= 1
  /\ dialog => shown >= 1 /\ said[1] = "prompt" /\ answer = NoAnswer

(* Why a window may be closed or is gone *)
Reasons ==
  /\ broken => engineEnd = "closed"
  /\ failure => Among({"fail"}, shown)
  /\ closable => failure \/ Among({"finish"}, shown) \/ engineEnd = "closed"
  /\ dismissed => closable
  /\ form = "closing" => Among(LastWords, shown) \/ engineEnd = "closed"
  /\ form \in {"closing", "exited"} /\ faults = 0
       => dismissed \/ Among({"finish", "close"}, Len(said))

(* Why a pipe is closed, and what the engine does about it *)
Ends ==
  /\ engineEnd = "closed" => form = "exited" \/ faults > 0
  /\ serverEnd = "closed"
       => form = "exited" \/ Among({"close"}, Len(said)) \/ engineEnd = "closed"
  /\ spc = "reaping" => form = "exited" \/ Among({"close"}, Len(said))
  /\ Among({"close"}, Len(said)) => spc \in {"reaping", "over", "killed"}

IInv ==
  /\ TypeOK
  /\ Lives
  /\ OneQuestion
  /\ Reasons
  /\ Ends
  /\ NothingLeftBehind
  /\ FailureStaysVisible

-----------------------------------------------------------------------------
(* Before anything is started the invariant holds. *)
LEMMA InitIInv == Init => IInv
<1> SUFFICES ASSUME Init PROVE IInv
  OBVIOUS
<1> USE DEF Init, PipeInit, WindowInit, SessionInit
<1>1. TypeOK
  <2>1. PipeTypeOK
    BY PipeAssumption DEF PipeTypeOK
  <2>2. WindowTypeOK
    BY DEF WindowTypeOK
  <2>3. steps \in 0..MaxSteps
    BY SessionAssumption
  <2>4. SessionTypeOK
    BY <2>3 DEF SessionTypeOK
  <2> QED BY <2>1, <2>2, <2>4 DEF TypeOK
<1>2. Lives /\ OneQuestion
  BY DEF Lives, OneQuestion, Connected
<1>3. Reasons /\ Ends /\ NothingLeftBehind /\ FailureStaysVisible
  BY DEF Reasons, Ends, NothingLeftBehind, FailureStaysVisible, Among
<1> QED BY <1>1, <1>2, <1>3 DEF IInv

-----------------------------------------------------------------------------
(* What a line in the pipe changes: nothing, or one line more at the end.  *)
SaidMore ==
  /\ PipeTypeOK'
  /\ Len(said') >= Len(said)
  /\ \A i \in 1..Len(said) : said'[i] = said[i]
  /\ \A T, n : Among(T, n) => Among(T, n)'
  /\ \A T : Among(T, Len(said)) => Among(T, Len(said))'

(* Writing to the pipe appends one line or leaves it as it was. *)
LEMMA Saying ==
  ASSUME PipeTypeOK, NEW t \in Message, Sent(t) \/ NotSent
  PROVE  SaidMore
<1>1. CASE NotSent
  BY <1>1 DEF SaidMore, NotSent, pipeVars, PipeTypeOK, Among
<1>2. CASE Sent(t)
  <2>1. /\ said' \in Seq(Message)
        /\ Len(said') = Len(said) + 1
        /\ \A i \in 1..Len(said) : said'[i] = said[i]
    BY <1>2 DEF Sent, PipeTypeOK
  <2>2. PipeTypeOK'
    BY <1>2, <2>1 DEF Sent, PipeTypeOK
  <2>3. \A T, n : Among(T, n) => Among(T, n)'
    BY <2>1 DEF Among, PipeTypeOK
  <2>4. \A T : Among(T, Len(said)) => Among(T, Len(said))'
    BY <2>1 DEF Among, PipeTypeOK
  <2> QED BY <2>1, <2>2, <2>3, <2>4 DEF SaidMore, PipeTypeOK
<1> QED BY <1>1, <1>2

-----------------------------------------------------------------------------

(* A session that begins keeps the invariant: it has no window yet. *)
LEMMA BeginIInv == IInv /\ Begin => IInv'
<1> SUFFICES ASSUME IInv, Begin PROVE IInv'
  OBVIOUS
<1>1. SessionTypeOK'
  BY DEF IInv, TypeOK, SessionTypeOK, Begin, Prepare, pipeVars, windowVars
<1>2. Lives'
  BY DEF IInv, Lives, Connected, Begin, Prepare, pipeVars, windowVars
<1>3. Ends'
  BY DEF IInv, Ends, Among, Begin, Prepare, pipeVars, windowVars
<1>4. NothingLeftBehind'
  BY DEF IInv, NothingLeftBehind, Begin, Prepare, pipeVars, windowVars
<1>5. FailureStaysVisible'
  BY DEF IInv, FailureStaysVisible, Among, Lives, Connected, Begin, Prepare, pipeVars,
         windowVars
<1>6. PipeTypeOK' /\ WindowTypeOK' /\ OneQuestion' /\ Reasons'
  BY DEF IInv, TypeOK, PipeTypeOK, WindowTypeOK, OneQuestion, Reasons, Among, LastWords,
         Begin, Prepare, pipeVars, windowVars
<1> QED BY <1>1, <1>2, <1>3, <1>4, <1>5, <1>6 DEF IInv, TypeOK

(* So does every step of the engine. *)
LEMMA EngineStepIInv == IInv /\ EngineStep => IInv'
<1> SUFFICES ASSUME IInv, EngineStep PROVE IInv'
  OBVIOUS
<1>1. CASE Spawn
  <2>1. WindowTypeOK'
    BY <1>1 DEF IInv, TypeOK, WindowTypeOK, Spawn, pipeVars
  <2>2. SessionTypeOK'
    BY <1>1 DEF IInv, TypeOK, SessionTypeOK, Spawn, pipeVars
  <2>3. Lives'
    BY <1>1 DEF IInv, Lives, Connected, Spawn, pipeVars
  <2>4. Reasons'
    BY <1>1 DEF IInv, Reasons, Among, LastWords, Spawn, pipeVars
  <2>5. Ends'
    BY <1>1 DEF IInv, Ends, Among, Lives, Connected, Spawn, pipeVars
  <2>6. NothingLeftBehind'
    BY <1>1 DEF IInv, NothingLeftBehind, Spawn, pipeVars
  <2>7. FailureStaysVisible'
    BY <1>1 DEF IInv, FailureStaysVisible, Among, Lives, Connected, Spawn, pipeVars
  <2>8. PipeTypeOK' /\ OneQuestion'
    BY <1>1 DEF IInv, TypeOK, PipeTypeOK, OneQuestion, Spawn, pipeVars
  <2> QED BY <2>1, <2>2, <2>3, <2>4, <2>5, <2>6, <2>7, <2>8 DEF IInv, TypeOK
<1>2. CASE Connect
  <2>1. PipeTypeOK'
    BY <1>2 DEF IInv, TypeOK, PipeTypeOK, Connect, windowVars
  <2>2. SessionTypeOK'
    BY <1>2 DEF IInv, TypeOK, SessionTypeOK, Connect, windowVars
  <2>3. Lives'
    BY <1>2 DEF IInv, Lives, Connected, Connect, windowVars
  <2>4. Reasons'
    BY <1>2 DEF IInv, Reasons, Among, LastWords, Lives, Connected, Connect, windowVars
  <2>5. Ends'
    BY <1>2 DEF IInv, Ends, Among, Connect, windowVars
  <2>6. NothingLeftBehind'
    BY <1>2 DEF IInv, NothingLeftBehind, Connect, windowVars
  <2>7. WindowTypeOK' /\ OneQuestion' /\ FailureStaysVisible'
    BY <1>2 DEF IInv, TypeOK, WindowTypeOK, OneQuestion, FailureStaysVisible, Among,
                Connect, windowVars
  <2> QED BY <2>1, <2>2, <2>3, <2>4, <2>5, <2>6, <2>7 DEF IInv, TypeOK
<1>3. CASE ConnectFails
  <2>1. SessionTypeOK'
    BY <1>3 DEF IInv, TypeOK, SessionTypeOK, ConnectFails, pipeVars, windowVars
  <2>2. Lives'
    BY <1>3 DEF IInv, Lives, Connected, ConnectFails, pipeVars, windowVars
  <2>3. Ends'
    BY <1>3 DEF IInv, Ends, Among, ConnectFails, pipeVars, windowVars
  <2>4. NothingLeftBehind'
    BY <1>3 DEF IInv, NothingLeftBehind, Lives, Connected, Reasons, Among, TypeOK,
                PipeTypeOK, WindowTypeOK, ConnectFails, pipeVars,
                windowVars
  <2>5. PipeTypeOK' /\ WindowTypeOK' /\ OneQuestion' /\ Reasons' /\ FailureStaysVisible'
    BY <1>3 DEF IInv, TypeOK, PipeTypeOK, WindowTypeOK, OneQuestion, Reasons, Among,
                LastWords, FailureStaysVisible, ConnectFails, pipeVars, windowVars
  <2> QED BY <2>1, <2>2, <2>3, <2>4, <2>5 DEF IInv, TypeOK
<1>4. CASE Greet
  <2>1. SaidMore
    BY <1>4, Saying DEF IInv, TypeOK, Message, Greet, Send, Sent, NotSent
  <2>2. PipeTypeOK'
    BY <1>4, <2>1 DEF IInv, TypeOK, PipeTypeOK, SaidMore, Greet, Send, Sent, NotSent,
                      pipeVars, windowVars
  <2>3. SessionTypeOK'
    BY <1>4 DEF IInv, TypeOK, SessionTypeOK, Greet, Send, Sent, NotSent, pipeVars,
                windowVars
  <2>4. Lives'
    BY <1>4, <2>1 DEF IInv, Lives, Connected, SaidMore, Greet, Send, Sent, NotSent,
                      pipeVars, windowVars
  <2>5. OneQuestion'
    BY <1>4, <2>1 DEF IInv, OneQuestion, TypeOK, PipeTypeOK, WindowTypeOK, SessionTypeOK,
                      SaidMore, Greet, Send, Sent, NotSent, pipeVars, windowVars
  <2>6. Reasons'
    BY <1>4, <2>1 DEF IInv, Reasons, Among, LastWords, SaidMore, Greet, Send, Sent,
                      NotSent, pipeVars, windowVars
  <2>7. Ends'
    BY <1>4, <2>1 DEF IInv, Ends, Among, SaidMore, Greet, Send, Sent, NotSent, pipeVars,
                      windowVars
  <2>8. NothingLeftBehind'
    BY <1>4 DEF IInv, NothingLeftBehind, Greet, Send, Sent, NotSent, pipeVars, windowVars
  <2>9. FailureStaysVisible'
    BY <1>4, <2>1 DEF IInv, FailureStaysVisible, Among, SaidMore, Greet, Send, Sent,
                      NotSent, pipeVars, windowVars
  <2>10. WindowTypeOK'
    BY <1>4 DEF IInv, TypeOK, WindowTypeOK, Greet, Send, Sent, NotSent, pipeVars, windowVars
  <2> QED BY <2>1, <2>2, <2>3, <2>4, <2>5, <2>6, <2>7, <2>8, <2>9, <2>10 DEF IInv, TypeOK
<1>5. CASE Advance
  <2>1. SaidMore
    BY <1>5, Saying DEF IInv, TypeOK, Message, Advance, Send, Sent, NotSent
  <2>2. PipeTypeOK'
    BY <1>5, <2>1 DEF IInv, TypeOK, PipeTypeOK, SaidMore, Advance, Send, Sent, NotSent,
                      pipeVars, windowVars
  <2>3. SessionTypeOK'
    BY <1>5, SessionAssumption DEF IInv, TypeOK, SessionTypeOK, Advance, Send, Sent,
                                   NotSent, pipeVars, windowVars
  <2>4. Lives'
    BY <1>5, <2>1 DEF IInv, Lives, Connected, SaidMore, Advance, Send, Sent, NotSent,
                      pipeVars, windowVars
  <2>5. OneQuestion'
    BY <1>5, <2>1 DEF IInv, OneQuestion, TypeOK, PipeTypeOK, WindowTypeOK, SessionTypeOK,
                      SaidMore, Advance, Send, Sent, NotSent, pipeVars, windowVars
  <2>6. Reasons'
    BY <1>5, <2>1 DEF IInv, Reasons, Among, LastWords, SaidMore, Advance, Send, Sent,
                      NotSent, pipeVars, windowVars
  <2>7. Ends'
    BY <1>5, <2>1 DEF IInv, Ends, Among, SaidMore, Advance, Send, Sent, NotSent, pipeVars,
                      windowVars
  <2>8. NothingLeftBehind'
    BY <1>5 DEF IInv, NothingLeftBehind, Advance, Send, Sent, NotSent, pipeVars, windowVars
  <2>9. FailureStaysVisible'
    BY <1>5, <2>1 DEF IInv, FailureStaysVisible, Among, SaidMore, Advance, Send, Sent,
                      NotSent, pipeVars, windowVars
  <2>10. WindowTypeOK'
    BY <1>5 DEF IInv, TypeOK, WindowTypeOK, Advance, Send, Sent, NotSent, pipeVars,
                windowVars
  <2> QED BY <2>1, <2>2, <2>3, <2>4, <2>5, <2>6, <2>7, <2>8, <2>9, <2>10 DEF IInv, TypeOK
<1>6. CASE WorkFails
  <2>1. SessionTypeOK'
    BY <1>6 DEF IInv, TypeOK, SessionTypeOK, WorkFails, pipeVars, windowVars
  <2>2. Lives'
    BY <1>6 DEF IInv, Lives, Connected, WorkFails, pipeVars, windowVars
  <2>3. Ends'
    BY <1>6 DEF IInv, Ends, Among, WorkFails, pipeVars, windowVars
  <2>4. NothingLeftBehind'
    BY <1>6 DEF IInv, NothingLeftBehind, WorkFails, pipeVars, windowVars
  <2>5. PipeTypeOK' /\ WindowTypeOK' /\ OneQuestion' /\ Reasons' /\ FailureStaysVisible'
    BY <1>6 DEF IInv, TypeOK, PipeTypeOK, WindowTypeOK, OneQuestion, Reasons, Among,
                LastWords, FailureStaysVisible, WorkFails, pipeVars, windowVars
  <2> QED BY <2>1, <2>2, <2>3, <2>4, <2>5 DEF IInv, TypeOK
<1>7. CASE Finish
  <2>1. SaidMore
    BY <1>7, Saying DEF IInv, TypeOK, Message, Finish, Send, Sent, NotSent
  <2>2. PipeTypeOK'
    BY <1>7, <2>1 DEF IInv, TypeOK, PipeTypeOK, SaidMore, Finish, Send, Sent, NotSent,
                      pipeVars, windowVars
  <2>3. SessionTypeOK'
    BY <1>7 DEF IInv, TypeOK, SessionTypeOK, Finish, Send, Sent, NotSent, pipeVars,
                windowVars
  <2>4. Lives'
    BY <1>7, <2>1 DEF IInv, Lives, Connected, SaidMore, Finish, Send, Sent, NotSent,
                      pipeVars, windowVars
  <2>5. OneQuestion'
    BY <1>7, <2>1 DEF IInv, OneQuestion, TypeOK, PipeTypeOK, WindowTypeOK, SessionTypeOK,
                      SaidMore, Finish, Send, Sent, NotSent, pipeVars, windowVars
  <2>6. Reasons'
    BY <1>7, <2>1 DEF IInv, Reasons, Among, LastWords, SaidMore, Finish, Send, Sent,
                      NotSent, pipeVars, windowVars
  <2>7. Ends'
    BY <1>7, <2>1 DEF IInv, Ends, Among, SaidMore, Finish, Send, Sent, NotSent, pipeVars,
                      windowVars
  <2>8. NothingLeftBehind'
    BY <1>7 DEF IInv, NothingLeftBehind, Finish, Send, Sent, NotSent, pipeVars, windowVars
  <2>9. FailureStaysVisible'
    BY <1>7, <2>1 DEF IInv, FailureStaysVisible, Among, SaidMore, Finish, Send, Sent,
                      NotSent, pipeVars, windowVars
  <2>10. WindowTypeOK'
    BY <1>7 DEF IInv, TypeOK, WindowTypeOK, Finish, Send, Sent, NotSent, pipeVars,
                windowVars
  <2> QED BY <2>1, <2>2, <2>3, <2>4, <2>5, <2>6, <2>7, <2>8, <2>9, <2>10 DEF IInv, TypeOK
<1>8. CASE TailFails
  <2>1. SessionTypeOK'
    BY <1>8 DEF IInv, TypeOK, SessionTypeOK, TailFails, pipeVars, windowVars
  <2>2. Lives'
    BY <1>8 DEF IInv, Lives, Connected, TailFails, pipeVars, windowVars
  <2>3. Ends'
    BY <1>8 DEF IInv, Ends, Among, TailFails, pipeVars, windowVars
  <2>4. NothingLeftBehind'
    BY <1>8 DEF IInv, NothingLeftBehind, TailFails, pipeVars, windowVars
  <2>5. PipeTypeOK' /\ WindowTypeOK' /\ OneQuestion' /\ Reasons' /\ FailureStaysVisible'
    BY <1>8 DEF IInv, TypeOK, PipeTypeOK, WindowTypeOK, OneQuestion, Reasons, Among,
                LastWords, FailureStaysVisible, TailFails, pipeVars, windowVars
  <2> QED BY <2>1, <2>2, <2>3, <2>4, <2>5 DEF IInv, TypeOK
<1>9. CASE TailDone
  <2>1. SessionTypeOK'
    BY <1>9 DEF IInv, TypeOK, SessionTypeOK, TailDone, pipeVars, windowVars
  <2>2. Lives'
    BY <1>9 DEF IInv, Lives, Connected, TailDone, pipeVars, windowVars
  <2>3. Ends'
    BY <1>9 DEF IInv, Ends, Among, TailDone, pipeVars, windowVars
  <2>4. NothingLeftBehind'
    BY <1>9 DEF IInv, NothingLeftBehind, TailDone, pipeVars, windowVars
  <2>5. PipeTypeOK' /\ WindowTypeOK' /\ OneQuestion' /\ Reasons' /\ FailureStaysVisible'
    BY <1>9 DEF IInv, TypeOK, PipeTypeOK, WindowTypeOK, OneQuestion, Reasons, Among,
                LastWords, FailureStaysVisible, TailDone, pipeVars, windowVars
  <2> QED BY <2>1, <2>2, <2>3, <2>4, <2>5 DEF IInv, TypeOK
<1>10. CASE Fail
  <2>1. SaidMore
    BY <1>10, Saying DEF IInv, TypeOK, Message, Fail, Send, Sent, NotSent
  <2>2. PipeTypeOK'
    BY <1>10, <2>1 DEF IInv, TypeOK, PipeTypeOK, SaidMore, Fail, Send, Sent, NotSent,
                       pipeVars, windowVars
  <2>3. SessionTypeOK'
    BY <1>10 DEF IInv, TypeOK, SessionTypeOK, Fail, Send, Sent, NotSent, pipeVars,
                 windowVars
  <2>4. Lives'
    BY <1>10, <2>1 DEF IInv, Lives, Connected, SaidMore, Fail, Send, Sent, NotSent,
                       pipeVars, windowVars
  <2>5. OneQuestion'
    BY <1>10, <2>1 DEF IInv, OneQuestion, TypeOK, PipeTypeOK, WindowTypeOK, SessionTypeOK,
                       SaidMore, Fail, Send, Sent, NotSent, pipeVars, windowVars
  <2>6. Reasons'
    BY <1>10, <2>1 DEF IInv, Reasons, Among, LastWords, SaidMore, Fail, Send, Sent,
                       NotSent, pipeVars, windowVars
  <2>7. Ends'
    BY <1>10, <2>1 DEF IInv, Ends, Among, SaidMore, Fail, Send, Sent, NotSent, pipeVars,
                       windowVars
  <2>8. NothingLeftBehind'
    BY <1>10 DEF IInv, NothingLeftBehind, Fail, Send, Sent, NotSent, pipeVars, windowVars
  <2>9. FailureStaysVisible'
    BY <1>10, <2>1 DEF IInv, FailureStaysVisible, Among, SaidMore, Fail, Send, Sent,
                       NotSent, pipeVars, windowVars
  <2>10. WindowTypeOK'
    BY <1>10 DEF IInv, TypeOK, WindowTypeOK, Fail, Send, Sent, NotSent, pipeVars, windowVars
  <2> QED BY <2>1, <2>2, <2>3, <2>4, <2>5, <2>6, <2>7, <2>8, <2>9, <2>10 DEF IInv, TypeOK
<1>11. CASE WaitForExit
  <2>1. SessionTypeOK'
    BY <1>11 DEF IInv, TypeOK, SessionTypeOK, WaitForExit, pipeVars, windowVars
  <2>2. Lives'
    BY <1>11 DEF IInv, Lives, Connected, WaitForExit, pipeVars, windowVars
  <2>3. Ends'
    BY <1>11 DEF IInv, Ends, Among, WaitForExit, pipeVars, windowVars
  <2>4. NothingLeftBehind'
    BY <1>11 DEF IInv, NothingLeftBehind, WaitForExit, pipeVars, windowVars
  <2>5. FailureStaysVisible'
    BY <1>11 DEF IInv, FailureStaysVisible, Among, TypeOK, PipeTypeOK, WindowTypeOK,
                 SessionTypeOK, Lives, Connected, Reasons, Ends, LastWords, WaitForExit,
                 pipeVars, windowVars
  <2>6. PipeTypeOK' /\ WindowTypeOK' /\ OneQuestion' /\ Reasons'
    BY <1>11 DEF IInv, TypeOK, PipeTypeOK, WindowTypeOK, OneQuestion, Reasons, Among,
                 LastWords, WaitForExit, pipeVars, windowVars
  <2> QED BY <2>1, <2>2, <2>3, <2>4, <2>5, <2>6 DEF IInv, TypeOK
<1>12. CASE Ask
  <2>1. SaidMore
    BY <1>12, Saying DEF IInv, TypeOK, Message, Ask, Send, Sent, NotSent
  <2>2. PipeTypeOK'
    BY <1>12, <2>1 DEF IInv, TypeOK, PipeTypeOK, SaidMore, Ask, Send, Sent, NotSent,
                       pipeVars, windowVars
  <2>3. SessionTypeOK'
    BY <1>12 DEF IInv, TypeOK, SessionTypeOK, Ask, Send, Sent, NotSent, pipeVars, windowVars
  <2>4. Lives'
    BY <1>12, <2>1 DEF IInv, Lives, Connected, SaidMore, Ask, Send, Sent, NotSent,
                       pipeVars, windowVars
  <2>5. OneQuestion'
    BY <1>12, <2>1 DEF IInv, OneQuestion, Lives, Connected, SaidMore, Ask, Send, Sent,
                       NotSent, pipeVars, windowVars
  <2>6. Reasons'
    BY <1>12, <2>1 DEF IInv, Reasons, Among, LastWords, SaidMore, Ask, Send, Sent, NotSent,
                       pipeVars, windowVars
  <2>7. Ends'
    BY <1>12, <2>1 DEF IInv, Ends, Among, SaidMore, Ask, Send, Sent, NotSent, pipeVars,
                       windowVars
  <2>8. NothingLeftBehind'
    BY <1>12 DEF IInv, NothingLeftBehind, Ask, Send, Sent, NotSent, pipeVars, windowVars
  <2>9. FailureStaysVisible'
    BY <1>12, <2>1 DEF IInv, FailureStaysVisible, Among, SaidMore, Ask, Send, Sent,
                       NotSent, pipeVars, windowVars
  <2>10. WindowTypeOK'
    BY <1>12 DEF IInv, TypeOK, WindowTypeOK, Ask, Send, Sent, NotSent, pipeVars, windowVars
  <2> QED BY <2>1, <2>2, <2>3, <2>4, <2>5, <2>6, <2>7, <2>8, <2>9, <2>10 DEF IInv, TypeOK
<1>13. CASE ReadReply
  <2>1. SessionTypeOK'
    BY <1>13 DEF IInv, TypeOK, SessionTypeOK, PipeTypeOK, WindowTypeOK, ReadReply,
                 pipeVars, windowVars
  <2>2. Lives'
    BY <1>13 DEF IInv, Lives, Connected, ReadReply, pipeVars, windowVars
  <2>3. Ends'
    BY <1>13 DEF IInv, Ends, Among, ReadReply, pipeVars, windowVars
  <2>4. NothingLeftBehind'
    BY <1>13 DEF IInv, NothingLeftBehind, ReadReply, pipeVars, windowVars
  <2>5. PipeTypeOK' /\ WindowTypeOK' /\ OneQuestion' /\ Reasons' /\ FailureStaysVisible'
    BY <1>13 DEF IInv, TypeOK, PipeTypeOK, WindowTypeOK, OneQuestion, Reasons, Among,
                 LastWords, FailureStaysVisible, ReadReply, pipeVars, windowVars
  <2> QED BY <2>1, <2>2, <2>3, <2>4, <2>5 DEF IInv, TypeOK
<1>14. CASE ReplyLost
  <2>1. SessionTypeOK'
    BY <1>14 DEF IInv, TypeOK, SessionTypeOK, ReplyLost, pipeVars, windowVars
  <2>2. Lives'
    BY <1>14 DEF IInv, Lives, Connected, ReplyLost, pipeVars, windowVars
  <2>3. Ends'
    BY <1>14 DEF IInv, Ends, Among, ReplyLost, pipeVars, windowVars
  <2>4. NothingLeftBehind'
    BY <1>14 DEF IInv, NothingLeftBehind, ReplyLost, pipeVars, windowVars
  <2>5. PipeTypeOK' /\ WindowTypeOK' /\ OneQuestion' /\ Reasons' /\ FailureStaysVisible'
    BY <1>14 DEF IInv, TypeOK, PipeTypeOK, WindowTypeOK, OneQuestion, Reasons, Among,
                 LastWords, FailureStaysVisible, ReplyLost, pipeVars, windowVars
  <2> QED BY <2>1, <2>2, <2>3, <2>4, <2>5 DEF IInv, TypeOK
<1>15. CASE DropExited
  <2>1. PipeTypeOK'
    BY <1>15 DEF IInv, TypeOK, PipeTypeOK, DropExited, Gone, windowVars
  <2>2. SessionTypeOK'
    BY <1>15 DEF IInv, TypeOK, SessionTypeOK, DropExited, Gone, windowVars
  <2>3. Lives'
    BY <1>15 DEF IInv, Lives, Connected, DropExited, Gone, windowVars
  <2>4. Reasons'
    BY <1>15 DEF IInv, Reasons, Among, LastWords, DropExited, Gone, windowVars
  <2>5. Ends'
    BY <1>15 DEF IInv, Ends, Among, Lives, Connected, DropExited, Gone, windowVars
  <2>6. NothingLeftBehind'
    BY <1>15 DEF IInv, NothingLeftBehind, Lives, Connected, DropExited, Gone, windowVars
  <2>7. WindowTypeOK' /\ OneQuestion' /\ FailureStaysVisible'
    BY <1>15 DEF IInv, TypeOK, WindowTypeOK, OneQuestion, FailureStaysVisible, Among,
                 DropExited, Gone, windowVars
  <2> QED BY <2>1, <2>2, <2>3, <2>4, <2>5, <2>6, <2>7 DEF IInv, TypeOK
<1>16. CASE DropClose
  <2>1. SaidMore
    BY <1>16, Saying DEF IInv, TypeOK, Message, DropClose, Send, Sent, NotSent
  <2>2. PipeTypeOK'
    BY <1>16, <2>1 DEF IInv, TypeOK, PipeTypeOK, SaidMore, DropClose, Send, Sent, NotSent,
                       pipeVars, windowVars
  <2>3. SessionTypeOK'
    BY <1>16 DEF IInv, TypeOK, SessionTypeOK, DropClose, Send, Sent, NotSent, pipeVars,
                 windowVars
  <2>4. Lives'
    BY <1>16, <2>1 DEF IInv, Lives, Connected, SaidMore, DropClose, Send, Sent, NotSent,
                       pipeVars, windowVars
  <2>5. OneQuestion'
    BY <1>16, <2>1 DEF IInv, OneQuestion, TypeOK, PipeTypeOK, WindowTypeOK, SessionTypeOK,
                       SaidMore, DropClose, Send, Sent, NotSent, pipeVars, windowVars
  <2>6. Reasons'
    BY <1>16, <2>1 DEF IInv, Reasons, Among, LastWords, SaidMore, DropClose, Send, Sent,
                       NotSent, pipeVars, windowVars
  <2>7. Ends'
    BY <1>16, <2>1 DEF IInv, Ends, Among, Lives, Connected, SaidMore, DropClose, Send,
                       Sent, NotSent, pipeVars, windowVars
  <2>8. NothingLeftBehind'
    BY <1>16 DEF IInv, NothingLeftBehind, DropClose, Send, Sent, NotSent, pipeVars,
                 windowVars
  <2>9. FailureStaysVisible'
    BY <1>16, <2>1 DEF IInv, FailureStaysVisible, Among, SaidMore, DropClose, Send, Sent,
                       NotSent, pipeVars, windowVars
  <2>10. WindowTypeOK'
    BY <1>16 DEF IInv, TypeOK, WindowTypeOK, DropClose, Send, Sent, NotSent, pipeVars,
                 windowVars
  <2> QED BY <2>1, <2>2, <2>3, <2>4, <2>5, <2>6, <2>7, <2>8, <2>9, <2>10 DEF IInv, TypeOK
<1>17. CASE DropReap
  <2>1. PipeTypeOK'
    BY <1>17 DEF IInv, TypeOK, PipeTypeOK, DropReap, Gone, windowVars
  <2>2. SessionTypeOK'
    BY <1>17 DEF IInv, TypeOK, SessionTypeOK, DropReap, Gone, windowVars
  <2>3. Lives'
    BY <1>17 DEF IInv, Lives, Connected, DropReap, Gone, windowVars
  <2>4. Reasons'
    BY <1>17 DEF IInv, Reasons, Among, LastWords, DropReap, Gone, windowVars
  <2>5. Ends'
    BY <1>17 DEF IInv, Ends, Among, DropReap, Gone, windowVars
  <2>6. NothingLeftBehind'
    BY <1>17 DEF IInv, NothingLeftBehind, DropReap, Gone, windowVars
  <2>7. WindowTypeOK' /\ OneQuestion' /\ FailureStaysVisible'
    BY <1>17 DEF IInv, TypeOK, WindowTypeOK, OneQuestion, FailureStaysVisible, Among,
                 DropReap, Gone, windowVars
  <2> QED BY <2>1, <2>2, <2>3, <2>4, <2>5, <2>6, <2>7 DEF IInv, TypeOK
<1>18. CASE DropKill
  <2>1. PipeTypeOK'
    BY <1>18 DEF IInv, TypeOK, PipeTypeOK, DropKill, Gone, Alive
  <2>2. WindowTypeOK'
    BY <1>18 DEF IInv, TypeOK, WindowTypeOK, DropKill, Gone, Alive
  <2>3. SessionTypeOK'
    BY <1>18 DEF IInv, TypeOK, SessionTypeOK, DropKill, Gone, Alive
  <2>4. Lives'
    BY <1>18 DEF IInv, Lives, Connected, DropKill, Gone, Alive
  <2>5. OneQuestion'
    BY <1>18 DEF IInv, OneQuestion, DropKill, Gone, Alive
  <2>6. Reasons'
    BY <1>18 DEF IInv, Reasons, Among, LastWords, TypeOK, PipeTypeOK, WindowTypeOK,
                 SessionTypeOK, Ends, DropKill, Gone, Alive
  <2>7. Ends'
    BY <1>18 DEF IInv, Ends, Among, DropKill, Gone, Alive
  <2>8. NothingLeftBehind'
    BY <1>18 DEF IInv, NothingLeftBehind, DropKill, Gone, Alive
  <2>9. FailureStaysVisible'
    BY <1>18 DEF IInv, FailureStaysVisible, Among, DropKill, Gone, Alive
  <2> QED BY <2>1, <2>2, <2>3, <2>4, <2>5, <2>6, <2>7, <2>8, <2>9 DEF IInv, TypeOK
<1> QED BY <1>1, <1>2, <1>3, <1>4, <1>5, <1>6, <1>7, <1>8, <1>9, <1>10, <1>11, <1>12,
           <1>13, <1>14, <1>15, <1>16, <1>17, <1>18 DEF EngineStep

(* So does every step of the pipe loop. *)
LEMMA LoopStepIInv == IInv /\ LoopStep /\ UNCHANGED sessionVars => IInv'
<1> SUFFICES ASSUME IInv, LoopStep, UNCHANGED sessionVars PROVE IInv'
  OBVIOUS
<1>1. CASE CreatePipe
  <2>1. PipeTypeOK'
    BY <1>1 DEF IInv, TypeOK, PipeTypeOK, CreatePipe, sessionVars
  <2>2. WindowTypeOK'
    BY <1>1 DEF IInv, TypeOK, WindowTypeOK, CreatePipe, sessionVars
  <2>3. Lives'
    BY <1>1 DEF IInv, Lives, Connected, CreatePipe, sessionVars
  <2>4. Ends'
    BY <1>1 DEF IInv, Ends, Among, CreatePipe, sessionVars
  <2>5. SessionTypeOK' /\ OneQuestion' /\ Reasons' /\ NothingLeftBehind' /\ FailureStaysVisible'
    BY <1>1 DEF IInv, TypeOK, SessionTypeOK, OneQuestion, Reasons, Among, LastWords,
                NothingLeftBehind, FailureStaysVisible, CreatePipe, sessionVars
  <2> QED BY <2>1, <2>2, <2>3, <2>4, <2>5 DEF IInv, TypeOK
<1>2. CASE AcceptEngine
  <2>1. WindowTypeOK'
    BY <1>2 DEF IInv, TypeOK, WindowTypeOK, AcceptEngine, pipeVars, sessionVars
  <2>2. Lives'
    BY <1>2 DEF IInv, Lives, Connected, AcceptEngine, pipeVars, sessionVars
  <2>3. PipeTypeOK' /\ SessionTypeOK' /\ OneQuestion' /\ Reasons' /\ Ends' /\ NothingLeftBehind' /\ FailureStaysVisible'
    BY <1>2 DEF IInv, TypeOK, PipeTypeOK, SessionTypeOK, OneQuestion, Reasons, Among,
                LastWords, Ends, NothingLeftBehind, FailureStaysVisible, AcceptEngine,
                pipeVars, sessionVars
  <2> QED BY <2>1, <2>2, <2>3 DEF IInv, TypeOK
<1>3. CASE Receive
  <2>1. PipeTypeOK'
    BY <1>3 DEF IInv, TypeOK, PipeTypeOK, Receive, EndLoop, sessionVars
  <2>2. WindowTypeOK'
    BY <1>3 DEF IInv, TypeOK, WindowTypeOK, Receive, EndLoop, sessionVars
  <2>3. Lives'
    BY <1>3 DEF IInv, Lives, Connected, Receive, EndLoop, sessionVars
  <2>4. Ends'
    BY <1>3 DEF IInv, Ends, Among, TypeOK, PipeTypeOK, WindowTypeOK, SessionTypeOK,
                Receive, EndLoop, sessionVars
  <2>5. SessionTypeOK' /\ OneQuestion' /\ Reasons' /\ NothingLeftBehind' /\ FailureStaysVisible'
    BY <1>3 DEF IInv, TypeOK, SessionTypeOK, OneQuestion, Reasons, Among, LastWords,
                NothingLeftBehind, FailureStaysVisible, Receive, EndLoop, sessionVars
  <2> QED BY <2>1, <2>2, <2>3, <2>4, <2>5 DEF IInv, TypeOK
<1>4. CASE EndOfPipe
  <2>1. PipeTypeOK'
    BY <1>4 DEF IInv, TypeOK, PipeTypeOK, EndOfPipe, EndLoop, sessionVars
  <2>2. WindowTypeOK'
    BY <1>4 DEF IInv, TypeOK, WindowTypeOK, EndOfPipe, EndLoop, sessionVars
  <2>3. Lives'
    BY <1>4 DEF IInv, Lives, Connected, EndOfPipe, EndLoop, sessionVars
  <2>4. Ends'
    BY <1>4 DEF IInv, Ends, Among, EndOfPipe, EndLoop, sessionVars
  <2>5. SessionTypeOK' /\ OneQuestion' /\ Reasons' /\ NothingLeftBehind' /\ FailureStaysVisible'
    BY <1>4 DEF IInv, TypeOK, SessionTypeOK, OneQuestion, Reasons, Among, LastWords,
                NothingLeftBehind, FailureStaysVisible, EndOfPipe, EndLoop, sessionVars
  <2> QED BY <2>1, <2>2, <2>3, <2>4, <2>5 DEF IInv, TypeOK
<1>5. CASE Respond
  <2>1. PipeTypeOK'
    BY <1>5 DEF IInv, TypeOK, PipeTypeOK, WindowTypeOK, SessionTypeOK, Respond, sessionVars
  <2>2. WindowTypeOK'
    BY <1>5 DEF IInv, TypeOK, WindowTypeOK, Respond, sessionVars
  <2>3. Lives'
    BY <1>5 DEF IInv, Lives, Connected, Respond, sessionVars
  <2>4. OneQuestion'
    BY <1>5 DEF IInv, OneQuestion, Respond, sessionVars
  <2>5. SessionTypeOK' /\ Reasons' /\ Ends' /\ NothingLeftBehind' /\ FailureStaysVisible'
    BY <1>5 DEF IInv, TypeOK, SessionTypeOK, Reasons, Among, LastWords, Ends,
                NothingLeftBehind, FailureStaysVisible, Respond, sessionVars
  <2> QED BY <2>1, <2>2, <2>3, <2>4, <2>5 DEF IInv, TypeOK
<1>6. CASE ResponseThrows
  <2>1. PipeTypeOK'
    BY <1>6 DEF IInv, TypeOK, PipeTypeOK, ResponseThrows, EndLoop, sessionVars
  <2>2. WindowTypeOK'
    BY <1>6 DEF IInv, TypeOK, WindowTypeOK, ResponseThrows, EndLoop, sessionVars
  <2>3. Lives'
    BY <1>6 DEF IInv, Lives, Connected, ResponseThrows, EndLoop, sessionVars
  <2>4. Reasons'
    BY <1>6 DEF IInv, Reasons, Among, LastWords, ResponseThrows, EndLoop, sessionVars
  <2>5. Ends'
    BY <1>6 DEF IInv, Ends, Among, ResponseThrows, EndLoop, sessionVars
  <2>6. SessionTypeOK' /\ OneQuestion' /\ NothingLeftBehind' /\ FailureStaysVisible'
    BY <1>6 DEF IInv, TypeOK, SessionTypeOK, OneQuestion, NothingLeftBehind,
                FailureStaysVisible, Among, ResponseThrows, EndLoop, sessionVars
  <2> QED BY <2>1, <2>2, <2>3, <2>4, <2>5, <2>6 DEF IInv, TypeOK
<1> QED BY <1>1, <1>2, <1>3, <1>4, <1>5, <1>6 DEF LoopStep

(* So does every callback of the form. *)
LEMMA FormStepIInv == IInv /\ FormStep /\ UNCHANGED sessionVars => IInv'
<1> SUFFICES ASSUME IInv, FormStep, UNCHANGED sessionVars PROVE IInv'
  OBVIOUS
<1>1. CASE ShowForm
  <2>1. WindowTypeOK'
    BY <1>1 DEF IInv, TypeOK, WindowTypeOK, ShowForm, pipeVars, sessionVars
  <2>2. Lives'
    BY <1>1 DEF IInv, Lives, Connected, ShowForm, pipeVars, sessionVars
  <2>3. Reasons'
    BY <1>1 DEF IInv, Reasons, Among, LastWords, ShowForm, pipeVars, sessionVars
  <2>4. Ends'
    BY <1>1 DEF IInv, Ends, Among, ShowForm, pipeVars, sessionVars
  <2>5. NothingLeftBehind'
    BY <1>1 DEF IInv, NothingLeftBehind, ShowForm, pipeVars, sessionVars
  <2>6. FailureStaysVisible'
    BY <1>1 DEF IInv, FailureStaysVisible, Among, ShowForm, pipeVars, sessionVars
  <2>7. PipeTypeOK' /\ SessionTypeOK' /\ OneQuestion'
    BY <1>1 DEF IInv, TypeOK, PipeTypeOK, SessionTypeOK, OneQuestion, ShowForm, pipeVars,
                sessionVars
  <2> QED BY <2>1, <2>2, <2>3, <2>4, <2>5, <2>6, <2>7 DEF IInv, TypeOK
<1>2. CASE CarryOut
  <2>1. PipeTypeOK'
    BY <1>2 DEF IInv, TypeOK, PipeTypeOK, CarryOut, NextShown, Posted, Frees, Closes,
                sessionVars
  <2>2. WindowTypeOK'
    BY <1>2 DEF IInv, TypeOK, WindowTypeOK, CarryOut, NextShown, Posted, Frees, Closes,
                sessionVars
  <2>3. Lives'
    BY <1>2 DEF IInv, Lives, Connected, CarryOut, NextShown, Posted, Frees, Closes,
                sessionVars
  <2>4. OneQuestion'
    BY <1>2 DEF IInv, OneQuestion, TypeOK, PipeTypeOK, WindowTypeOK, SessionTypeOK,
                CarryOut, NextShown, Posted, Frees, Closes, sessionVars
  <2>5. Reasons'
    BY <1>2 DEF IInv, Reasons, Among, LastWords, TypeOK, PipeTypeOK, WindowTypeOK,
                SessionTypeOK, CarryOut, NextShown, Posted, Frees, Closes, sessionVars
  <2>6. Ends'
    BY <1>2 DEF IInv, Ends, Among, CarryOut, NextShown, Posted, Frees, Closes, sessionVars
  <2>7. NothingLeftBehind'
    BY <1>2 DEF IInv, NothingLeftBehind, CarryOut, NextShown, Posted, Frees, Closes,
                sessionVars
  <2>8. FailureStaysVisible'
    BY <1>2 DEF IInv, FailureStaysVisible, Among, CarryOut, NextShown, Posted, Frees,
                Closes, sessionVars
  <2>9. SessionTypeOK'
    BY <1>2 DEF IInv, TypeOK, SessionTypeOK, CarryOut, NextShown, Posted, Frees, Closes,
                sessionVars
  <2> QED BY <2>1, <2>2, <2>3, <2>4, <2>5, <2>6, <2>7, <2>8, <2>9 DEF IInv, TypeOK
<1>3. CASE OpenDialog
  <2>1. PipeTypeOK'
    BY <1>3 DEF IInv, TypeOK, PipeTypeOK, OpenDialog, sessionVars
  <2>2. WindowTypeOK'
    BY <1>3 DEF IInv, TypeOK, WindowTypeOK, OpenDialog, sessionVars
  <2>3. OneQuestion'
    BY <1>3 DEF IInv, OneQuestion, TypeOK, PipeTypeOK, WindowTypeOK, SessionTypeOK,
                OpenDialog, sessionVars
  <2>4. Reasons'
    BY <1>3 DEF IInv, Reasons, Among, LastWords, TypeOK, PipeTypeOK, WindowTypeOK,
                SessionTypeOK, OpenDialog, sessionVars
  <2>5. SessionTypeOK' /\ Lives' /\ Ends' /\ NothingLeftBehind' /\ FailureStaysVisible'
    BY <1>3 DEF IInv, TypeOK, SessionTypeOK, Lives, Connected, Ends, Among,
                NothingLeftBehind, FailureStaysVisible, OpenDialog, sessionVars
  <2> QED BY <2>1, <2>2, <2>3, <2>4, <2>5 DEF IInv, TypeOK
<1>4. CASE AdmitPipeError
  <2>1. WindowTypeOK'
    BY <1>4 DEF IInv, TypeOK, WindowTypeOK, AdmitPipeError, pipeVars, sessionVars
  <2>2. Reasons'
    BY <1>4 DEF IInv, Reasons, Among, LastWords, AdmitPipeError, pipeVars, sessionVars
  <2>3. PipeTypeOK' /\ SessionTypeOK' /\ Lives' /\ OneQuestion' /\ Ends' /\ NothingLeftBehind' /\ FailureStaysVisible'
    BY <1>4 DEF IInv, TypeOK, PipeTypeOK, SessionTypeOK, Lives, Connected, OneQuestion,
                Ends, Among, NothingLeftBehind, FailureStaysVisible, AdmitPipeError,
                pipeVars, sessionVars
  <2> QED BY <2>1, <2>2, <2>3 DEF IInv, TypeOK
<1>5. CASE LeaveMain
  <2>1. PipeTypeOK'
    BY <1>5 DEF IInv, TypeOK, PipeTypeOK, LeaveMain, Vanish, sessionVars
  <2>2. WindowTypeOK'
    BY <1>5 DEF IInv, TypeOK, WindowTypeOK, LeaveMain, Vanish, sessionVars
  <2>3. Lives'
    BY <1>5 DEF IInv, Lives, Connected, LeaveMain, Vanish, sessionVars
  <2>4. OneQuestion'
    BY <1>5 DEF IInv, OneQuestion, LeaveMain, Vanish, sessionVars
  <2>5. Reasons'
    BY <1>5 DEF IInv, Reasons, Among, LastWords, LeaveMain, Vanish, sessionVars
  <2>6. Ends'
    BY <1>5 DEF IInv, Ends, Among, LeaveMain, Vanish, sessionVars
  <2>7. NothingLeftBehind'
    BY <1>5 DEF IInv, NothingLeftBehind, LeaveMain, Vanish, sessionVars
  <2>8. FailureStaysVisible'
    BY <1>5 DEF IInv, FailureStaysVisible, Among, LeaveMain, Vanish, sessionVars
  <2>9. SessionTypeOK'
    BY <1>5 DEF IInv, TypeOK, SessionTypeOK, LeaveMain, Vanish, sessionVars
  <2> QED BY <2>1, <2>2, <2>3, <2>4, <2>5, <2>6, <2>7, <2>8, <2>9 DEF IInv, TypeOK
<1> QED BY <1>1, <1>2, <1>3, <1>4, <1>5 DEF FormStep

(* So does everything the user can do. *)
LEMMA UserIInv == IInv /\ User => IInv'
<1> SUFFICES ASSUME IInv, User PROVE IInv'
  OBVIOUS
<1> UNCHANGED sessionVars
  BY DEF User
<1>1. CASE CloseByHand
  <2>1. WindowTypeOK'
    BY <1>1 DEF IInv, TypeOK, WindowTypeOK, CloseByHand, MayClose, pipeVars, sessionVars
  <2>2. Lives'
    BY <1>1 DEF IInv, Lives, Connected, CloseByHand, MayClose, pipeVars, sessionVars
  <2>3. Reasons'
    BY <1>1 DEF IInv, Reasons, Among, LastWords, CloseByHand, MayClose, pipeVars,
                sessionVars
  <2>4. Ends'
    BY <1>1 DEF IInv, Ends, Among, CloseByHand, MayClose, pipeVars, sessionVars
  <2>5. NothingLeftBehind'
    BY <1>1 DEF IInv, NothingLeftBehind, CloseByHand, MayClose, pipeVars, sessionVars
  <2>6. FailureStaysVisible'
    BY <1>1 DEF IInv, FailureStaysVisible, Among, CloseByHand, MayClose, pipeVars,
                sessionVars
  <2>7. PipeTypeOK' /\ SessionTypeOK' /\ OneQuestion'
    BY <1>1 DEF IInv, TypeOK, PipeTypeOK, SessionTypeOK, OneQuestion, CloseByHand,
                MayClose, pipeVars, sessionVars
  <2> QED BY <2>1, <2>2, <2>3, <2>4, <2>5, <2>6, <2>7 DEF IInv, TypeOK
<1>2. CASE \E a \in Answers : PressButton(a)
  <2>1. WindowTypeOK'
    BY <1>2 DEF IInv, TypeOK, WindowTypeOK, PressButton, pipeVars, sessionVars
  <2>2. Lives'
    BY <1>2 DEF IInv, Lives, Connected, PressButton, pipeVars, sessionVars
  <2>3. OneQuestion'
    BY <1>2 DEF IInv, OneQuestion, PressButton, pipeVars, sessionVars
  <2>4. PipeTypeOK' /\ SessionTypeOK' /\ Reasons' /\ Ends' /\ NothingLeftBehind' /\ FailureStaysVisible'
    BY <1>2 DEF IInv, TypeOK, PipeTypeOK, SessionTypeOK, Reasons, Among, LastWords, Ends,
                NothingLeftBehind, FailureStaysVisible, PressButton, pipeVars, sessionVars
  <2> QED BY <2>1, <2>2, <2>3, <2>4 DEF IInv, TypeOK
<1> QED BY <1>1, <1>2 DEF User, UserStep

(* So does everything that can break. *)
LEMMA MishapIInv == IInv /\ Mishap => IInv'
<1> SUFFICES ASSUME IInv, Mishap PROVE IInv'
  OBVIOUS
<1>1. CASE SpawnFails
  <2>1. PipeTypeOK'
    BY <1>1, PipeAssumption DEF IInv, TypeOK, PipeTypeOK, SpawnFails, Fault, windowVars
  <2>2. SessionTypeOK'
    BY <1>1 DEF IInv, TypeOK, SessionTypeOK, SpawnFails, Fault, windowVars
  <2>3. Lives'
    BY <1>1 DEF IInv, Lives, Connected, SpawnFails, Fault, windowVars
  <2>4. Reasons'
    BY <1>1 DEF IInv, Reasons, Among, LastWords, Lives, Connected, SpawnFails, Fault,
                windowVars
  <2>5. Ends'
    BY <1>1 DEF IInv, Ends, Among, Lives, Connected, SpawnFails, Fault, windowVars
  <2>6. NothingLeftBehind'
    BY <1>1, <2>1 DEF IInv, NothingLeftBehind, Lives, Connected, TypeOK, PipeTypeOK,
                      SpawnFails, Fault, windowVars
  <2>7. FailureStaysVisible'
    BY <1>1 DEF IInv, FailureStaysVisible, Among, TypeOK, PipeTypeOK, WindowTypeOK,
                SessionTypeOK, SpawnFails, Fault, windowVars
  <2>8. WindowTypeOK' /\ OneQuestion'
    BY <1>1 DEF IInv, TypeOK, WindowTypeOK, OneQuestion, SpawnFails, Fault, windowVars
  <2> QED BY <2>1, <2>2, <2>3, <2>4, <2>5, <2>6, <2>7, <2>8 DEF IInv, TypeOK
<1>2. CASE ConnectTimesOut
  <2>1. PipeTypeOK'
    BY <1>2, PipeAssumption DEF IInv, TypeOK, PipeTypeOK, ConnectTimesOut, Fault, windowVars
  <2>2. SessionTypeOK'
    BY <1>2 DEF IInv, TypeOK, SessionTypeOK, ConnectTimesOut, Fault, windowVars
  <2>3. Lives'
    BY <1>2 DEF IInv, Lives, Connected, ConnectTimesOut, Fault, windowVars
  <2>4. Reasons'
    BY <1>2 DEF IInv, Reasons, Among, LastWords, TypeOK, PipeTypeOK, WindowTypeOK,
                SessionTypeOK, ConnectTimesOut, Fault, windowVars
  <2>5. Ends'
    BY <1>2 DEF IInv, Ends, Among, Lives, Connected, ConnectTimesOut, Fault, windowVars
  <2>6. NothingLeftBehind'
    BY <1>2, <2>1 DEF IInv, NothingLeftBehind, Lives, Connected, TypeOK, PipeTypeOK,
                      ConnectTimesOut, Fault, windowVars
  <2>7. FailureStaysVisible'
    BY <1>2 DEF IInv, FailureStaysVisible, Among, TypeOK, PipeTypeOK, WindowTypeOK,
                SessionTypeOK, ConnectTimesOut, Fault, windowVars
  <2>8. WindowTypeOK' /\ OneQuestion'
    BY <1>2 DEF IInv, TypeOK, WindowTypeOK, OneQuestion, ConnectTimesOut, Fault, windowVars
  <2> QED BY <2>1, <2>2, <2>3, <2>4, <2>5, <2>6, <2>7, <2>8 DEF IInv, TypeOK
<1>3. CASE EngineDies
  <2>1. PipeTypeOK'
    BY <1>3, PipeAssumption DEF IInv, TypeOK, PipeTypeOK, EngineDies, Fault, windowVars
  <2>2. SessionTypeOK'
    BY <1>3 DEF IInv, TypeOK, SessionTypeOK, EngineDies, Fault, windowVars
  <2>3. Lives'
    BY <1>3 DEF IInv, Lives, Connected, EngineDies, Fault, windowVars
  <2>4. Reasons'
    BY <1>3 DEF IInv, Reasons, Among, LastWords, TypeOK, PipeTypeOK, WindowTypeOK,
                SessionTypeOK, EngineDies, Fault, windowVars
  <2>5. Ends'
    BY <1>3 DEF IInv, Ends, Among, TypeOK, PipeTypeOK, WindowTypeOK, SessionTypeOK,
                EngineDies, Fault, windowVars
  <2>6. NothingLeftBehind'
    BY <1>3, <2>1 DEF IInv, NothingLeftBehind, TypeOK, PipeTypeOK, EngineDies, Fault,
                      windowVars
  <2>7. FailureStaysVisible'
    BY <1>3 DEF IInv, FailureStaysVisible, Among, TypeOK, PipeTypeOK, WindowTypeOK,
                SessionTypeOK, EngineDies, Fault, windowVars
  <2>8. WindowTypeOK' /\ OneQuestion'
    BY <1>3 DEF IInv, TypeOK, WindowTypeOK, OneQuestion, EngineDies, Fault, windowVars
  <2> QED BY <2>1, <2>2, <2>3, <2>4, <2>5, <2>6, <2>7, <2>8 DEF IInv, TypeOK
<1>4. CASE WindowDies /\ UNCHANGED sessionVars
  <2>1. PipeTypeOK'
    BY <1>4, PipeAssumption DEF IInv, TypeOK, PipeTypeOK, WindowDies, Fault, Alive, Vanish,
                                sessionVars
  <2>2. WindowTypeOK'
    BY <1>4 DEF IInv, TypeOK, WindowTypeOK, WindowDies, Fault, Alive, Vanish, sessionVars
  <2>3. Lives'
    BY <1>4 DEF IInv, Lives, Connected, WindowDies, Fault, Alive, Vanish, sessionVars
  <2>4. OneQuestion'
    BY <1>4 DEF IInv, OneQuestion, WindowDies, Fault, Alive, Vanish, sessionVars
  <2>5. Reasons'
    BY <1>4 DEF IInv, Reasons, Among, LastWords, TypeOK, PipeTypeOK, WindowTypeOK,
                SessionTypeOK, WindowDies, Fault, Alive, Vanish, sessionVars
  <2>6. Ends'
    BY <1>4 DEF IInv, Ends, Among, WindowDies, Fault, Alive, Vanish, sessionVars
  <2>7. NothingLeftBehind'
    BY <1>4, <2>1 DEF IInv, NothingLeftBehind, TypeOK, PipeTypeOK, WindowDies, Fault,
                      Alive, Vanish, sessionVars
  <2>8. FailureStaysVisible'
    BY <1>4 DEF IInv, FailureStaysVisible, Among, TypeOK, PipeTypeOK, WindowTypeOK,
                SessionTypeOK, WindowDies, Fault, Alive, Vanish, sessionVars
  <2>9. SessionTypeOK'
    BY <1>4 DEF IInv, TypeOK, SessionTypeOK, WindowDies, Fault, Alive, Vanish, sessionVars
  <2> QED BY <2>1, <2>2, <2>3, <2>4, <2>5, <2>6, <2>7, <2>8, <2>9 DEF IInv, TypeOK
<1> QED BY <1>1, <1>2, <1>3, <1>4 DEF Mishap

(* The invariant is inductive. *)
LEMMA NextIInv == IInv /\ [Next]_vars => IInv'
<1> SUFFICES ASSUME IInv, [Next]_vars PROVE IInv'
  OBVIOUS
<1>1. CASE Begin
  BY <1>1, BeginIInv
<1>2. CASE EngineStep
  BY <1>2, EngineStepIInv
<1>3. CASE RunWindow
  BY <1>3, LoopStepIInv, FormStepIInv DEF RunWindow
<1>4. CASE User
  BY <1>4, UserIInv
<1>5. CASE Mishap
  BY <1>5, MishapIInv
<1>6. CASE UNCHANGED vars
  <2>1. TypeOK' /\ Lives' /\ OneQuestion'
    BY <1>6 DEF IInv, TypeOK, PipeTypeOK, WindowTypeOK, SessionTypeOK, Lives, Connected,
       OneQuestion, vars, pipeVars, windowVars, sessionVars
  <2>2. Reasons' /\ Ends' /\ NothingLeftBehind' /\ FailureStaysVisible'
    BY <1>6 DEF IInv, Reasons, Ends, NothingLeftBehind, FailureStaysVisible, Among,
       LastWords, vars, pipeVars, windowVars, sessionVars
  <2> QED BY <2>1, <2>2 DEF IInv
<1> QED BY <1>1, <1>2, <1>3, <1>4, <1>5, <1>6 DEF Next

(* Every reachable state satisfies it. *)
LEMMA AlwaysIInv == Spec => []IInv
  BY InitIInv, NextIInv, PTL DEF Spec

(* Every variable keeps its type; no line is shown before it was read, nor *)
(* read before it was written. *)
THEOREM DialogueTypeCorrect == Spec => []TypeOK
<1>1. IInv => TypeOK
  BY DEF IInv
<1> QED BY <1>1, AlwaysIInv, PTL

(* Whatever a session leaves behind, however many faults there are, is due *)
(* to a killed engine or to a window that a mishap kept it from reaching.  *)
THEOREM NothingStays == Spec => []NothingLeftBehind
<1>1. IInv => NothingLeftBehind
  BY DEF IInv
<1> QED BY <1>1, AlwaysIInv, PTL

(* What FAILURE_UX_SHOWN says has been on the form, and the user closed it.*)
THEOREM FailureSeen == Spec => []FailureStaysVisible
<1>1. IInv => FailureStaysVisible
  BY DEF IInv
<1> QED BY <1>1, AlwaysIInv, PTL

(* The window closes only after a last word, or when the engine is dead. *)
THEOREM ClosedRightly == Spec => []ClosedByRightOnly
<1>1. IInv => ClosedByRightOnly
  BY DEF IInv, Reasons, LastWords, ClosedByRightOnly
<1> QED BY <1>1, AlwaysIInv, PTL

-----------------------------------------------------------------------------
(* Dialogue implements Display *)

Shown == <<said, shown, Screen, answer, got, faults>>
Displays == D!DisplayNext \/ UNCHANGED Shown

(* A line in the pipe is a line said. *)
LEMMA SayingDisplays ==
  ASSUME NEW t \in Message, Sent(t) \/ NotSent, UNCHANGED <<got, windowVars>>
  PROVE  Displays
<1>1. UNCHANGED <<shown, Screen, answer, got, faults>>
  BY DEF Sent, NotSent, pipeVars, windowVars, Screen
<1>2. CASE Sent(t)
  <2>1. D!Say
    BY <1>1, <1>2 DEF D!Say, Sent
  <2> QED BY <2>1 DEF Displays, D!DisplayNext
<1>3. CASE NotSent
  BY <1>1, <1>3 DEF NotSent, pipeVars, Displays, Shown
<1> QED BY <1>2, <1>3

(* What breaks is a mishap, whether it takes the window along or not. *)
LEMMA MishapDisplays ==
  ASSUME IInv, Fault, UNCHANGED <<said, shown, answer, got>>, Screen' \in {Screen, "gone"}
  PROVE  Displays
<1>1. D!Mishap
  BY DEF D!Mishap, Fault
<1> QED BY <1>1 DEF Displays, D!DisplayNext

(* The engine's steps *)
LEMMA EngineDisplays == IInv /\ EngineStep => Displays
<1> SUFFICES ASSUME IInv, EngineStep PROVE Displays
  OBVIOUS
<1>1. CASE Spawn
  BY <1>1 DEF Spawn, pipeVars, IInv, Lives, Displays, Shown, Screen
<1>2. CASE Connect \/ ConnectFails \/ WorkFails \/ TailFails \/ TailDone \/ WaitForExit
             \/ ReplyLost
  BY <1>2 DEF Connect, ConnectFails, WorkFails, TailFails, TailDone, WaitForExit, ReplyLost,
     pipeVars, windowVars, Displays, Shown, Screen
<1>3. CASE Greet \/ Advance \/ Finish \/ Fail \/ Ask \/ DropClose
  <2>1. /\ \E t \in Message : Sent(t) \/ NotSent
        /\ UNCHANGED <<got, windowVars>>
    BY <1>3 DEF Greet, Advance, Finish, Fail, Ask, DropClose, Send, Message
  <2> QED BY <2>1, SayingDisplays
<1>4. CASE ReadReply
  <2>1. answer # NoAnswer /\ got' = answer
    BY <1>4 DEF ReadReply, IInv, OneQuestion
  <2>2. UNCHANGED <<said, shown, Screen, answer, faults>>
    BY <1>4 DEF ReadReply, pipeVars, windowVars, Screen
  <2>3. D!Hear
    BY <2>1, <2>2 DEF D!Hear
  <2> QED BY <2>3 DEF Displays, D!DisplayNext
<1>5. CASE DropExited \/ DropReap
  BY <1>5 DEF DropExited, DropReap, Gone, windowVars, Displays, Shown, Screen
<1>6. CASE DropKill
  <2>1. Screen = "on" /\ Screen' = "gone"
    BY <1>6 DEF DropKill, Alive, Screen, IInv, Lives, Connected
  <2>2. \E i \in 1..Len(said) : said[i] \in LastWords
    BY <1>6 DEF DropKill, Alive, IInv, Ends, Among, LastWords
  <2>3. UNCHANGED <<said, shown, answer, got, faults>>
    BY <1>6 DEF DropKill, Gone
  <2>4. D!Leave
    BY <2>1, <2>2, <2>3 DEF D!Leave, LastWords
  <2> QED BY <2>4 DEF Displays, D!DisplayNext
<1> QED BY <1>1, <1>2, <1>3, <1>4, <1>5, <1>6 DEF EngineStep

(* The window's steps *)
LEMMA WindowDisplays == IInv /\ RunWindow => Displays
<1> SUFFICES ASSUME IInv, RunWindow PROVE Displays
  OBVIOUS
<1>0. got' = got
  BY DEF RunWindow, sessionVars
<1>1. CASE LoopStep
  BY <1>0, <1>1 DEF LoopStep, CreatePipe, AcceptEngine, Receive, EndOfPipe, Respond,
     ResponseThrows, pipeVars, Displays, Shown, Screen
<1>2. CASE ShowForm
  <2>1. D!Appear
    BY <1>0, <1>2 DEF ShowForm, pipeVars, Screen, D!Appear
  <2> QED BY <2>1 DEF Displays, D!DisplayNext
<1>3. CASE CarryOut
  <2>1. form' \in {"up", "closing"}
    BY <1>3 DEF CarryOut
  <2>2. Screen = "on" /\ Screen' = "on"
    BY <1>3, <2>1 DEF CarryOut, Screen
  <2>3. shown < Len(said) /\ shown' = shown + 1
    BY <1>3 DEF CarryOut, Posted, NextShown, IInv, TypeOK, PipeTypeOK
  <2>4. UNCHANGED <<said, answer, got, faults>>
    BY <1>0, <1>3 DEF CarryOut
  <2>5. D!Show
    BY <2>2, <2>3, <2>4 DEF D!Show
  <2> QED BY <2>5 DEF Displays, D!DisplayNext
<1>4. CASE OpenDialog
  <2>1. Screen = "on" /\ UNCHANGED <<said, Screen, answer, got, faults>>
    BY <1>0, <1>4 DEF OpenDialog, Screen
  <2>2. shown < Len(said) /\ shown' = shown + 1
    BY <1>4 DEF OpenDialog, IInv, TypeOK, PipeTypeOK
  <2>3. D!Show
    BY <2>1, <2>2 DEF D!Show
  <2> QED BY <2>3 DEF Displays, D!DisplayNext
<1>5. CASE AdmitPipeError
  BY <1>0, <1>5 DEF AdmitPipeError, pipeVars, Displays, Shown, Screen
<1>6. CASE LeaveMain
  <2>1. Screen = "on" /\ Screen' = "gone" /\ UNCHANGED <<said, shown, answer, got, faults>>
    BY <1>0, <1>6 DEF LeaveMain, Vanish, Screen
  <2>2. faults > 0 \/ \E i \in 1..Len(said) : said[i] \in LastWords
    BY <1>6 DEF LeaveMain, IInv, Reasons, Ends, Among
  <2>3. D!Leave
    BY <2>1, <2>2 DEF D!Leave, LastWords
  <2> QED BY <2>3 DEF Displays, D!DisplayNext
<1> QED BY <1>1, <1>2, <1>3, <1>4, <1>5, <1>6 DEF RunWindow, FormStep

(* Everything else *)
LEMMA NextDisplays == IInv /\ [Next]_vars => [D!DisplayNext]_(D!displayVars)
<1> SUFFICES ASSUME IInv, [Next]_vars PROVE Displays
  BY DEF Displays, Shown, D!displayVars
<1>1. CASE Begin
  BY <1>1 DEF Begin, Prepare, pipeVars, windowVars, Displays, Shown, Screen
<1>2. CASE EngineStep
  BY <1>2, EngineDisplays
<1>3. CASE RunWindow
  BY <1>3, WindowDisplays
<1>4. CASE User
  <2>1. CASE CloseByHand
    BY <1>4, <2>1 DEF User, CloseByHand, pipeVars, sessionVars, Displays, Shown, Screen
  <2>2. CASE \E a \in Answers : PressButton(a)
    <3>1. Screen = "on" /\ UNCHANGED <<said, shown, Screen, got, faults>>
      BY <1>4, <2>2 DEF User, PressButton, pipeVars, sessionVars, Screen
    <3>2. answer = NoAnswer /\ answer' \in Answers
      BY <2>2 DEF PressButton, IInv, OneQuestion
    <3>3. \E i \in 1..shown : said[i] = "prompt"
      BY <2>2 DEF PressButton, IInv, OneQuestion, TypeOK, PipeTypeOK
    <3>4. D!Press
      BY <3>1, <3>2, <3>3 DEF D!Press
    <3> QED BY <3>4 DEF Displays, D!DisplayNext
  <2> QED BY <1>4, <2>1, <2>2 DEF User, UserStep
<1>5. CASE Mishap
  <2>1. CASE SpawnFails \/ ConnectTimesOut \/ EngineDies
    <3>1. Fault /\ UNCHANGED <<said, shown, answer, got, Screen>>
      BY <2>1 DEF SpawnFails, ConnectTimesOut, EngineDies, windowVars, Screen
    <3> QED BY <3>1, MishapDisplays
  <2>2. CASE WindowDies /\ UNCHANGED sessionVars
    <3>1. Fault /\ UNCHANGED <<said, shown, answer, got>> /\ Screen' = "gone"
      BY <2>2 DEF WindowDies, Vanish, sessionVars, Screen
    <3> QED BY <3>1, MishapDisplays
  <2> QED BY <1>5, <2>1, <2>2 DEF Mishap
<1>6. CASE UNCHANGED vars
  BY <1>6 DEF vars, pipeVars, windowVars, sessionVars, Displays, Shown, Screen
<1> QED BY <1>1, <1>2, <1>3, <1>4, <1>5, <1>6 DEF Next

(* Engine, pipe, pipe loop and form implement Display: what is said is     *)
(* shown in order and without a gap, an answer is what the user pressed at *)
(* the question, and the window leaves the screen only at a last word or   *)
(* after a mishap. *)
THEOREM DialogueIsDisplay == Spec => IsDisplay
<1>1. Init => D!DisplayInit
  BY DEF Init, PipeInit, WindowInit, SessionInit, D!DisplayInit, Screen
<1> QED BY <1>1, NextDisplays, AlwaysIInv, PTL DEF Spec, IsDisplay, D!DisplaySpec
=============================================================================
