------------------------------ MODULE AtParser ------------------------------
(***************************************************************************)
(* The serial line: lib/uart.c puts what the host types into a queue, and  *)
(* read_sr of user/user_main.c takes it out, finds the AT commands in it,  *)
(* collects their arguments and runs them.  read_sr never waits for the    *)
(* queue: when it is empty in the middle of a command, the command ends.   *)
(*                                                                         *)
(* A line the host types is a command word, the tokens of its body, CR and *)
(* LF.  A token is <<line, position>>; no argument spells a command word.  *)
(* What a command does is the subject of the other modules: here it is an  *)
(* entry of "executed".                                                    *)
(***************************************************************************)
EXTENDS Naturals, Sequences, FiniteSets

CONSTANTS Line,      \* the lines the host types: [word, body]
          MaxLine,   \* bound: how many of them
          QueueSize, \* length of xQueueUART (2048)
          MaxLost     \* bound: how many tokens a full queue drops

ASSUME LineAssumption == \A l \in Line : l \in [word : STRING, body : Seq(STRING)]
ASSUME BoundAssumption == MaxLine \in Nat /\ QueueSize \in Nat \ {0} /\ MaxLost \in Nat

VARIABLES
  typed,         \* the lines typed so far; the last may be incomplete
  position,      \* tokens of the last one that left the host
  xQueueUART,    \* tokens
  message_sr,    \* tokens in the buffer, with what is left of earlier ones
  message_index, \* how many of them belong to the current text
  handler,       \* the word of the command whose loop read_sr is in, a token
  param,         \* separators it has counted
  args,          \* the arguments it has copied
  break_loop,    \* its loop ends after one more receive
  executed,      \* history: the commands run, in order
  last,          \* history: the last token received
  drained,       \* history: the queue was empty between two lines
  dropped,       \* history: the tokens a full queue dropped
  clean          \* history: lines received without interruption

host == <<typed, position>>
parser == <<message_sr, message_index, handler, param, args, break_loop>>
vars == <<host, xQueueUART, parser, executed, last, drained, dropped, clean>>

-----------------------------------------------------------------------------
(* The arguments of a command: which tokens separate, after which of them  *)
(* an argument is copied, and at which the command runs.                   *)
Arguments(separators, copy, end) ==
  [separators |-> separators, copy |-> copy, end |-> end]

NoArguments == Arguments({}, << >>, 0)

ECHOMODE == Arguments({"CR"}, <<1>>, 1)
PUSHMODE == Arguments({"CR"}, <<1>>, 1)
SETUPWIFI == Arguments({"Quote", "Comma"}, <<2, 5>>, 5)
CHECKSTATUS_WIFI == NoArguments
CONNECT_TO_SERVER1_BY_CLIENT1 == Arguments({"Quote", "CR", "Comma"}, <<2, 4>>, 4)
CONNECT_TO_SERVER2_BY_CLIENT2 == Arguments({"Quote", "CR", "Comma"}, <<2, 4>>, 4)
DISCONNECT_FROM_SERVER == NoArguments
CHECKSTATUS_CLIENT == NoArguments
PRINT_TO_SERVER1 == Arguments({"Quote"}, <<2>>, 2)
PRINT_TO_SERVER2 == Arguments({"Quote"}, <<2>>, 2)
READ_DATA_FROM_CLIENT1_BUFFER == Arguments({"CR"}, <<1>>, 1)
READ_DATA_FROM_CLIENT1_BUFFER_TO_ARDUINO_LIB == Arguments({"CR"}, <<1>>, 1)
READ_DATA_FROM_CLIENT2_BUFFER == Arguments({"CR"}, <<1>>, 1)
READ_DATA_FROM_CLIENT2_BUFFER_TO_ARDUINO_LIB == Arguments({"CR"}, <<1>>, 1)
CONNECT_TO_NETPIE == NoArguments
DISCONNECT_FROM_NETPIE == NoArguments
SETUP_TOKEN == Arguments({"Quote", "Comma"}, <<2, 5>>, 5)
INIT_MICROGEAR == Arguments({"Quote", "Comma"}, <<2, 5, 8, 11>>, 11)
SET_ALIAS_NAME == Arguments({"Quote"}, <<2>>, 2)
PUBLISH == Arguments({"Quote", "Comma"}, <<2, 5>>, 5)
SUBSCRIBE == Arguments({"Quote"}, <<2>>, 2)
UNSUBSCRIBE == Arguments({"Quote"}, <<2>>, 2)
CHAT == Arguments({"Quote", "Comma"}, <<2, 5>>, 5)
PULL_MESSAGE == NoArguments
WRITE_FEED == Arguments({"Quote", "Comma"}, <<1, 3, 6, 9>>, 9)

(* The words read_sr compares message_sr with (user_main.h).               *)
KnownWord ==
  {"ATE", "ATP", "AT+CW ", "AT+CW?", "AT+CCS1 ", "AT+CCS2 ", "AT+CD1",
   "AT+CD2", "AT+CCS1?", "AT+CCS2?", "AT+CP1 ", "AT+CP2 ", "AT+CR1 ",
   "AT+CRTA1 ", "AT+CR2 ", "AT+CRTA2 ", "AT+MGCN", "AT+MGDC", "AT+MGST ",
   "AT+MGIN ", "AT+MGSA ", "AT+MGP ", "AT+MGS ", "AT+MGUS ", "AT+MGC ",
   "AT+MGPM", "AT+MGWF "}

Command ==
  [word \in KnownWord |->
     CASE word = "ATE" -> ECHOMODE
       [] word = "ATP" -> PUSHMODE
       [] word = "AT+CW " -> SETUPWIFI
       [] word = "AT+CW?" -> CHECKSTATUS_WIFI
       [] word = "AT+CCS1 " -> CONNECT_TO_SERVER1_BY_CLIENT1
       [] word = "AT+CCS2 " -> CONNECT_TO_SERVER2_BY_CLIENT2
       [] word \in {"AT+CD1", "AT+CD2"} -> DISCONNECT_FROM_SERVER
       [] word \in {"AT+CCS1?", "AT+CCS2?"} -> CHECKSTATUS_CLIENT
       [] word = "AT+CP1 " -> PRINT_TO_SERVER1
       [] word = "AT+CP2 " -> PRINT_TO_SERVER2
       [] word = "AT+CR1 " -> READ_DATA_FROM_CLIENT1_BUFFER
       [] word = "AT+CRTA1 " -> READ_DATA_FROM_CLIENT1_BUFFER_TO_ARDUINO_LIB
       [] word = "AT+CR2 " -> READ_DATA_FROM_CLIENT2_BUFFER
       [] word = "AT+CRTA2 " -> READ_DATA_FROM_CLIENT2_BUFFER_TO_ARDUINO_LIB
       [] word = "AT+MGCN" -> CONNECT_TO_NETPIE
       [] word = "AT+MGDC" -> DISCONNECT_FROM_NETPIE
       [] word = "AT+MGST " -> SETUP_TOKEN
       [] word = "AT+MGIN " -> INIT_MICROGEAR
       [] word = "AT+MGSA " -> SET_ALIAS_NAME
       [] word = "AT+MGP " -> PUBLISH
       [] word = "AT+MGS " -> SUBSCRIBE
       [] word = "AT+MGUS " -> UNSUBSCRIBE
       [] word = "AT+MGC " -> CHAT
       [] word = "AT+MGPM" -> PULL_MESSAGE
       [] word = "AT+MGWF " -> WRITE_FEED]

Connect == {"AT+CCS1 ", "AT+CCS2 "}
ToServer == {"AT+CP1 ", "AT+CP2 "}
Mode == {"ATE", "ATP"}

(* Commands that empty message_sr before they collect arguments.           *)
Clearing ==
  {"AT+CW ", "AT+CCS1 ", "AT+CCS2 ", "AT+MGST ", "AT+MGIN ", "AT+MGSA ",
   "AT+MGP ", "AT+MGS ", "AT+MGUS ", "AT+MGC "}

(* Commands that run with whatever they have when the queue is empty.      *)
Unconditional == {"AT+MGC ", "AT+MGWF "}

(* The format of a command (user_main.h:14-50): a line has the separators  *)
(* at which its arguments end, a feed without a key those of the others.   *)
(* A shorter one would go on in the next line.                             *)
LineText(l) == <<l.word>> \o l.body \o <<"CR", "LF">>
SeparatorsUpTo(l, i) ==
  {k \in 2 .. i : LineText(l)[k] \in Command[l.word].separators}
Needed(l) ==
  IF l.word = "AT+MGWF " /\ LineText(l)[2] # "One" THEN 6 ELSE Command[l.word].end
Formatted(l) ==
  l.word \in KnownWord => Cardinality(SeparatorsUpTo(l, Len(LineText(l)))) >= Needed(l)

ASSUME FormatAssumption == \A l \in Line : Formatted(l)

-----------------------------------------------------------------------------
None == <<0, 0>>
Word(token) == typed[token[1]].word
Text(n) == LineText(typed[n])
Kind(token) == Text(token[1])[token[2]]
CrPosition(n) == Len(typed[n].body) + 2
Whole(n) == \A t \in dropped : t[1] # n

Init ==
  /\ typed = << >> /\ position = 0
  /\ xQueueUART = << >>
  /\ message_sr = << >> /\ message_index = 0
  /\ handler = None /\ param = 0 /\ args = << >> /\ break_loop = FALSE
  /\ executed = << >>
  /\ last = None /\ drained = TRUE /\ dropped = {} /\ clean = {}

(* The receive interrupt of one token; a full queue drops it.              *)
Arrive(n, i) ==
  /\ position' = i
  /\ \/ /\ Len(xQueueUART) < QueueSize
        /\ xQueueUART' = Append(xQueueUART, <<n, i>>)
        /\ UNCHANGED <<dropped, clean>>
     \/ /\ Len(xQueueUART) = QueueSize /\ Cardinality(dropped) < MaxLost
        /\ dropped' = dropped \cup {<<n, i>>}
        /\ clean' = clean \ {n}
        /\ UNCHANGED xQueueUART
  /\ UNCHANGED <<parser, executed, last, drained>>

Complete == typed # << >> => position = Len(Text(Len(typed)))

_uart0_rx_isr ==
  \/ /\ ~Complete
     /\ UNCHANGED typed
     /\ Arrive(Len(typed), position + 1)
  \/ /\ Complete /\ Len(typed) < MaxLine
     /\ \E l \in Line : typed' = Append(typed, l)
     /\ Arrive(Len(typed) + 1, 1)

-----------------------------------------------------------------------------
Content == SubSeq(message_sr, 1, message_index)

Run(word, arguments) ==
  executed' = Append(executed, [line |-> word[1], args |-> arguments])

(* Lines after which read_sr is ready for the next without a pause: not    *)
(* the unknown ones, nor AT+CCS (its loop ends at the queue's end unless   *)
(* the connection was closed before and the address is known), nor a feed  *)
(* without a key (its loop waits for the separators of the key), and none  *)
(* with more than a line end behind the separator that ends the loop.      *)
Delimited(n) ==
  LET l == typed[n] IN
  /\ l.word \in KnownWord \ Connect
  /\ IF Command[l.word] = NoArguments THEN l.body = << >>
     ELSE /\ l.body # << >> /\ Needed(l) = Command[l.word].end
          /\ Cardinality(SeparatorsUpTo(l, Len(l.body))) < Needed(l)

(* History of a receive: a line is clean when its first token comes after  *)
(* a pause, or after a clean line that is delimited.                       *)
Note(token) ==
  LET n == token[1] IN
  /\ last' = token
  /\ drained' = (drained /\ Kind(token) \in {"CR", "LF"})
  /\ clean' = IF /\ token[2] = 1 /\ Whole(n)
                 /\ drained \/ (n - 1 \in clean /\ Delimited(n - 1))
              THEN clean \cup {n} ELSE clean

(* History of an empty queue: it interrupts a line that has a body.        *)
NoteEmpty ==
  LET n == last[1]
      interrupted == n # 0 /\ typed[n].body # << >> /\ last[2] < CrPosition(n) IN
  /\ drained' = ~interrupted
  /\ clean' = IF interrupted THEN clean \ {n} ELSE clean
  /\ UNCHANGED last

Receive(token) ==
  /\ xQueueUART # << >>
  /\ token = Head(xQueueUART)
  /\ xQueueUART' = Tail(xQueueUART)
  /\ Note(token)
  /\ UNCHANGED <<host, dropped>>

ReceiveNothing ==
  /\ xQueueUART = << >>
  /\ NoteEmpty
  /\ UNCHANGED <<host, xQueueUART, dropped>>

(* Mutant: a line end is counted but not stored.                           *)
CountLineEnd(token) ==
  /\ handler = None /\ Receive(token)
  /\ Kind(token) \in {"CR", "LF"}
  /\ message_index' = message_index + 1
  /\ UNCHANGED <<message_sr, handler, param, args, break_loop, executed>>

(* Between commands.                                                       *)
IgnoreLineEnd(token) ==
  /\ handler = None /\ Receive(token)
  /\ Kind(token) \in {"CR", "LF"}
  /\ UNCHANGED <<parser, executed>>

Found(token) ==
  message_index = 0 /\ token[2] = 1 /\ Word(token) \in KnownWord

Accumulate(token) ==
  /\ handler = None /\ Receive(token)
  /\ Kind(token) \notin {"CR", "LF"} /\ ~Found(token)
  /\ message_sr' = Append(Content, token)
  /\ message_index' = message_index + 1
  /\ UNCHANGED <<handler, param, args, break_loop, executed>>

RunAtOnce(token) ==
  /\ handler = None /\ Receive(token) /\ Found(token)
  /\ Command[Word(token)] = NoArguments
  /\ message_sr' = <<token>>
  /\ Run(token, << >>)
  /\ UNCHANGED <<message_index, handler, param, args, break_loop>>

BeginArguments(token) ==
  /\ handler = None /\ Receive(token) /\ Found(token)
  /\ Command[Word(token)] # NoArguments
  /\ message_sr' = IF Word(token) \in Clearing THEN << >> ELSE <<token>>
  /\ handler' = token
  /\ param' = 0
  /\ args' = [j \in DOMAIN Command[Word(token)].copy |-> << >>]
  /\ UNCHANGED <<message_index, break_loop, executed>>

Pause ==
  /\ handler = None /\ ReceiveNothing
  /\ message_index' = 0
  /\ UNCHANGED <<message_sr, handler, param, args, break_loop, executed>>

-----------------------------------------------------------------------------
(* In the loop of a command.                                               *)
Format == Command[Word(handler)]
Separates(token) == Kind(token) \in Format.separators

CollectText(token) ==
  /\ handler # None /\ ~break_loop /\ Receive(token) /\ ~Separates(token)
  /\ message_sr' = Append(Content, token)
  /\ message_index' = message_index + 1
  /\ UNCHANGED <<handler, param, args, break_loop, executed>>

(* Mutant: the key of a feed is taken in every mode.                       *)
CopiedInEveryMode(n) ==
  [j \in DOMAIN args |->
     IF Format.copy[j] # n /\ Word(handler) \notin Mode THEN args[j]
     ELSE IF Word(handler) \in ToServer THEN Content ELSE message_sr]

(* strcpy takes the whole of message_sr, espconn_send what the index says. *)
(* A mode is read at every separator; the key of a feed counts in mode 1.  *)
Copied(n) ==
  [j \in DOMAIN args |->
     IF \/ Format.copy[j] # n /\ Word(handler) \notin Mode
        \/ Word(handler) = "AT+MGWF " /\ j = 4 /\ Kind(args[1][1]) # "One"
     THEN args[j]
     ELSE IF Word(handler) \in ToServer THEN Content ELSE message_sr]

Runs(n) ==
  IF Word(handler) \in Mode THEN n > 0
  ELSE n = Format.end /\ Word(handler) \notin Unconditional

(* Mutant: the loop ends one separator late.                               *)
EndsLate(n) == {n > Format.end}

(* Does the loop end?  A mode must be 0 or 1.                              *)
Ends(n) ==
  IF Word(handler) \in Connect THEN IF n = 4 THEN BOOLEAN ELSE {FALSE}
  ELSE IF Word(handler) \in Mode
  THEN IF \A i \in DOMAIN message_sr : message_sr[i][1] = handler[1]
       THEN {TRUE} ELSE BOOLEAN
  ELSE {n = Format.end}

(* Mutant: a separator does not end the text collected so far.             *)
SeparatorKeepsIndex(token) ==
  /\ handler # None /\ ~break_loop /\ Receive(token) /\ Separates(token)
  /\ param' = param + 1
  /\ args' = Copied(param + 1)
  /\ message_index' = message_index
  /\ break_loop' \in Ends(param + 1)
  /\ \/ Runs(param + 1) /\ Run(handler, args')
     \/ ~Runs(param + 1) /\ UNCHANGED executed
  /\ UNCHANGED <<message_sr, handler>>

Separator(token) ==
  /\ handler # None /\ ~break_loop /\ Receive(token) /\ Separates(token)
  /\ param' = param + 1
  /\ args' = Copied(param + 1)
  /\ message_index' = IF Word(handler) \in ToServer /\ param = 0
                     THEN message_index ELSE 0
  /\ break_loop' \in Ends(param + 1)
  /\ \/ Runs(param + 1) /\ Run(handler, args')
     \/ ~Runs(param + 1) /\ UNCHANGED executed
  /\ UNCHANGED <<message_sr, handler>>

(* The loop ends: the queue is empty, or break_loop is set, which is       *)
(* looked at after one more token was received.                            *)
Leave ==
  /\ handler' = None
  /\ message_index' = 0 /\ param' = 0 /\ args' = << >> /\ break_loop' = FALSE
  /\ \/ Word(handler) \in Unconditional /\ Run(handler, args)
     \/ Word(handler) \notin Unconditional /\ UNCHANGED executed
  /\ UNCHANGED message_sr

LeaveAfter(token) == handler # None /\ break_loop /\ Receive(token) /\ Leave

LeaveEmpty == handler # None /\ ReceiveNothing /\ Leave

read_sr ==
  \/ \E token \in {xQueueUART[i] : i \in DOMAIN xQueueUART} :
       \/ IgnoreLineEnd(token) \/ Accumulate(token)
       \/ RunAtOnce(token) \/ BeginArguments(token)
       \/ CollectText(token) \/ Separator(token) \/ LeaveAfter(token)
  \/ Pause \/ LeaveEmpty

Next == _uart0_rx_isr \/ read_sr

Spec == Init /\ [][Next]_vars

-----------------------------------------------------------------------------
(* Types; the arguments are tokens, and message_index never passes the     *)
(* text in message_sr.                                                     *)
Token == {None} \cup UNION {{<<n, i>> : i \in 1 .. Len(Text(n))} : n \in 1 .. Len(typed)}
TypeOK ==
  /\ typed \in Seq(Line) /\ position \in Nat
  /\ Len(xQueueUART) <= QueueSize
  /\ message_index \in 0 .. Len(message_sr)
  /\ handler \in Token
  /\ param \in Nat
  /\ break_loop \in BOOLEAN
  /\ dropped \subseteq Token /\ clean \in SUBSET (1 .. MaxLine)

(* The places of the text that ends at separator c of a line, and the      *)
(* tokens at some places of line n, in their order.                        *)
Places(l, c) ==
  {i \in 2 .. Len(LineText(l)) :
     /\ LineText(l)[i] \notin Command[l.word].separators
     /\ Cardinality(SeparatorsUpTo(l, i)) = c - 1}
Spells(text, n, places) ==
  /\ {text[k] : k \in DOMAIN text} = {<<n, i>> : i \in places}
  /\ \A j, k \in DOMAIN text : j < k => text[j][2] < text[k][2]

(* The arguments that were typed in line n, without the key of a feed that *)
(* is not in mode 1.                                                       *)
AsTyped(arguments, n) ==
  LET copy == Command[typed[n].word].copy IN
  /\ DOMAIN arguments = DOMAIN copy
  /\ \A j \in DOMAIN copy :
       IF copy[j] <= Needed(typed[n])
       THEN Spells(arguments[j], n, Places(typed[n], copy[j]))
       ELSE arguments[j] = << >>

(* A line whose arguments all have a character; a text for a server begins *)
(* with its quote, which does not end what was collected before.           *)
Filled(l) ==
  LET f == Command[l.word] IN
  /\ f # NoArguments => l.body # << >>
  /\ \A j \in DOMAIN f.copy : f.copy[j] <= Needed(l) => Places(l, f.copy[j]) # {}
  /\ l.word \in ToServer => LineText(l)[2] \in f.separators

(* A line that came after a pause or after a clean delimited line, lost    *)
(* no token and was not interrupted has run exactly once, with the         *)
(* arguments that were typed and in the order typed, whenever read_sr is   *)
(* not in the loop of a command - whatever became of the lines before the  *)
(* pause (user_main.c:179-187).                                            *)
CleanLinesRun ==
  handler = None =>
    \A n \in clean : typed[n].word \in KnownWord /\ Filled(typed[n]) =>
      \E i \in DOMAIN executed :
        /\ executed[i].line = n /\ AsTyped(executed[i].args, n)
        /\ \A j \in DOMAIN executed :
             /\ executed[j].line < n <=> j < i
             /\ executed[j].line > n <=> j > i

(* An interruption cuts a command short but never mixes it with another:   *)
(* whatever is executed uses only tokens of its own line, unless the full  *)
(* queue dropped one of them.                                              *)
NoMixing ==
  \A i \in DOMAIN executed : Whole(executed[i].line) =>
    \A j \in DOMAIN executed[i].args : \A k \in DOMAIN executed[i].args[j] :
      executed[i].args[j][k][1] = executed[i].line

(* The loop of a clean delimited command ends within its line: it receives *)
(* no token of the next, however late read_sr looks at break_loop and      *)
(* whatever is in message_sr from before.  (The other loops - AT+CCS when  *)
(* the connection was not closed before, user_main.c:297-305, a feed       *)
(* without a key - go on for as long as the host types.)                   *)
LoopStaysInLine ==
  handler # None /\ handler[1] \in clean /\ Delimited(handler[1]) =>
    last[1] = handler[1]

(* user_main.h:45 "AT+MGP "<TOPIC>","<PAYLOAD>"": a command that was       *)
(* received without interruption runs with the arguments that were typed.  *)
ArgumentsAsTyped ==
  \A i \in DOMAIN executed :
    executed[i].line \in clean => AsTyped(executed[i].args, executed[i].line)
=============================================================================
