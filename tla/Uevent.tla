--------------------------------- MODULE Uevent ---------------------------------
(***************************************************************************)
(* The uevent listener (Documentation/kernel/udev/uevent_listen.c): what   *)
(* the kernel multicasts about its devices is received into one static     *)
(* buffer, taken apart there and printed.  A message is                    *)
(*     action@devpath NUL KEY=value NUL KEY=value NUL ...                  *)
(* of which the text is reduced to letters.                                *)
(***************************************************************************)
EXTENDS Integers, Sequences, FiniteSets

CONSTANTS
  BufferSize,         \* HOTPLUG_BUFFER_SIZE + OBJECT_SIZE
  HOTPLUG_NUM_ENVP,
  Letters,            \* what a text is made of, besides "@"
  MaxMessage          \* bound of a message's length

ASSUME UeventAssumption ==
  BufferSize \in Nat \ {0} /\ HOTPLUG_NUM_ENVP \in Nat \ {0} /\ MaxMessage \in Nat

NUL == "NUL"
At == "@"
Chars == Letters \cup {NUL, At}
Messages == UNION {[1 .. n -> Chars] : n \in 0 .. MaxMessage}

VARIABLES
  pc,               \* start, listen, split, keys, print, ended
  buffer,           \* offsets 0 .. BufferSize - 1
  buflen, bufpos, devpath,
  envp,             \* the pointers stored, as offsets; NULL is not one of them
  msg,              \* history: the message received last
  printed           \* history: what was printed for it

vars == <<pc, buffer, buflen, bufpos, devpath, envp, msg, printed>>
parseVars == <<buflen, bufpos, devpath, envp>>

Nothing == [said |-> FALSE, action |-> <<>>, devpath |-> <<>>, env |-> <<>>]

Init ==
  /\ pc = "start"
  /\ buffer = [k \in 0 .. BufferSize - 1 |-> NUL]
  /\ buflen = 0 /\ bufpos = 0 /\ devpath = 0 /\ envp = <<>>
  /\ msg = <<>> /\ printed = Nothing

(* not root, or the socket, its binding or the second binding fails *)
Refused ==
  /\ pc = "start" /\ pc' = "ended"
  /\ UNCHANGED <<buffer, parseVars, msg, printed>>

Bound ==
  /\ pc = "start" /\ pc' = "listen"
  /\ UNCHANGED <<buffer, parseVars, msg, printed>>

(* the kernel's buffer of the socket overran: recv fails once *)
RecvFails == pc = "listen" /\ UNCHANGED vars

(* strlen and the text from an offset on, in buffer b *)
strlen(b, from) == (CHOOSE k \in from .. BufferSize - 1 :
                      b[k] = NUL /\ \A j \in from .. k - 1 : b[j] # NUL) - from
Text(b, from) == [k \in 1 .. strlen(b, from) |-> b[from + k - 1]]

Smaller(a, b) == IF a < b THEN a ELSE b

(* Mutant: the message is not terminated where it ends. *)
ReceiveBare ==
  /\ pc = "listen"
  /\ msg' \in Messages
  /\ LET n == Smaller(Len(msg'), BufferSize - 1) IN
     /\ buflen' = n
     /\ buffer' = [k \in DOMAIN buffer |->
                     IF k = BufferSize - 1 THEN NUL
                     ELSE IF k < n THEN msg'[k + 1] ELSE buffer[k]]
  /\ bufpos' = strlen(buffer', 0) + 1
  /\ pc' = "split"
  /\ UNCHANGED <<devpath, envp, printed>>

(* recv cuts a message that is too long; the byte after it is cleared, the *)
(* ones behind keep what an earlier message left                           *)
Receive ==
  /\ pc = "listen"
  /\ msg' \in Messages
  /\ LET n == Smaller(Len(msg'), BufferSize - 1) IN
     /\ buflen' = n
     /\ buffer' = [k \in DOMAIN buffer |->
                     IF k = n THEN NUL
                     ELSE IF k < Len(msg') THEN msg'[k + 1] ELSE buffer[k]]
  /\ bufpos' = strlen(buffer', 0) + 1
  /\ pc' = "split"
  /\ UNCHANGED <<devpath, envp, printed>>

Action == 0 .. strlen(buffer, 0) - 1

(* no '@': the message is not an event *)
NoEvent ==
  /\ pc = "split" /\ \A k \in Action : buffer[k] # At
  /\ printed' = Nothing
  /\ pc' = "listen"
  /\ UNCHANGED <<buffer, parseVars, msg>>

(* the first '@' ends the action *)
Split ==
  /\ pc = "split"
  /\ \E k \in Action : /\ buffer[k] = At /\ \A j \in 0 .. k - 1 : buffer[j] # At
                       /\ buffer' = [buffer EXCEPT ![k] = NUL]
                       /\ devpath' = k + 1
  /\ envp' = <<>>
  /\ pc' = "keys"
  /\ UNCHANGED <<buflen, bufpos, msg, printed>>

(* a turn of the loop that reconstructs envp *)
NextKey ==
  /\ pc = "keys" /\ bufpos < buflen /\ Len(envp) < HOTPLUG_NUM_ENVP - 1
  /\ envp' = Append(envp, bufpos)
  /\ bufpos' = bufpos + strlen(buffer, bufpos) + 1
  /\ UNCHANGED <<pc, buffer, buflen, devpath, msg, printed>>

PrintEvent ==
  /\ pc = "keys" /\ ~(bufpos < buflen /\ Len(envp) < HOTPLUG_NUM_ENVP - 1)
  /\ printed' = [said |-> TRUE, action |-> Text(buffer, 0), devpath |-> Text(buffer, devpath),
                 env |-> [i \in DOMAIN envp |-> Text(buffer, envp[i])]]
  /\ pc' = "listen"
  /\ UNCHANGED <<buffer, parseVars, msg>>

Rests == pc = "ended" /\ UNCHANGED vars

Next == Refused \/ Bound \/ RecvFails \/ Receive \/ NoEvent \/ Split \/ NextKey \/ PrintEvent
        \/ Rests

Spec == Init /\ [][Next]_vars
-------------------------------------------------------------------------------
(* What should be printed for a message, said of the message itself: the    *)
(* part that fits, cut at its NULs; of the first field what is before and   *)
(* what is behind its first "@"; of the others as many as envp has room for.*)
Fits(m) == SubSeq(m, 1, Smaller(Len(m), BufferSize - 1))
Ends(f, from) == {k \in from .. Len(f) : f[k] = NUL} \cup {Len(f) + 1}
Field(f, from) == SubSeq(f, from, (CHOOSE k \in Ends(f, from) : \A j \in Ends(f, from) : k <= j) - 1)
Starts(f) == {k \in 2 .. Len(f) : f[k - 1] = NUL}
Key(f, i) == CHOOSE k \in Starts(f) : Cardinality(Starts(f) \cap (1 .. k)) = i

Expected(m) ==
  LET f == Fits(m)
      head == Field(f, 1)
      ats == {k \in DOMAIN head : head[k] = At}
      first == CHOOSE k \in ats : \A j \in ats : k <= j
  IN  IF ats = {} THEN Nothing
      ELSE [said |-> TRUE, action |-> SubSeq(head, 1, first - 1),
            devpath |-> SubSeq(head, first + 1, Len(head)),
            env |-> [i \in 1 .. Smaller(Cardinality(Starts(f)), HOTPLUG_NUM_ENVP - 1) |->
                       Field(f, Key(f, i))]]

(* What is printed is what the last message says and nothing of an earlier  *)
(* one that is still in the static buffer, however long the message was,    *)
(* wherever it was cut, and however many keys it has; all reading stays     *)
(* inside the buffer (uevent_listen.c 115-169).                             *)
PrintedIsMessage == pc = "listen" => printed = Expected(msg)
===============================================================================
