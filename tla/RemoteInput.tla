---------------------------- MODULE RemoteInput ----------------------------
(***************************************************************************)
(* The keys and buttons of users at several clients, and the ones of the   *)
(* server's machine: a message of CtrlConnection is one that ProcessEvent  *)
(* has made of an event, and each that the server thread replays goes to   *)
(* the system (InputReplay).  Of a message's fields other than the size,   *)
(* one byte is kept.                                                       *)
(***************************************************************************)
EXTENDS CtrlConnection, InputReplay

CONSTANTS Machines,     \* the machines the server may run on
          Toggled,      \* Toggled[p][c]: the keys and buttons the user of c presses, over p
          Wire          \* Wire[m]: message m as bytes

AllToggled == UNION {Toggled[p][c] : p \in Protos, c \in Client}

Keys    == AllToggled \cap SDLKey
Buttons == AllToggled \ SDLKey

Conf == [ctrlenable |-> TRUE, sendmousemotion |-> TRUE, relativeMouseMode |-> FALSE,
         windowSizeX |-> 0, windowSizeY |-> 0]

SDL_BUTTON(x) == CASE x = "left" -> 1 [] x = "middle" -> 2 [] x = "right" -> 3

Toggle(x, down) ==
    IF x \in Keys THEN KeyEvent(down, x) ELSE ButtonEvent(down, SDL_BUTTON(x))

ToggleMessage(x, down) == ProcessEvent(Toggle(x, down), Conf)[1]

ToggleMessages == {ToggleMessage(x, down) : x \in AllToggled, down \in BOOLEAN}

ASSUME InputAssumption ==
    /\ \A p \in Protos, c \in Client :
          Toggled[p][c] \subseteq SDLKey \cup {"left", "middle", "right"}
    /\ \A m, n \in ToggleMessages : Wire[m] = Wire[n] => m = n
    /\ Messages = {Wire[m] : m \in ToggleMessages}

(* The message whose bytes these are.                                      *)
Read(bytes) == CHOOSE m \in ToggleMessages : Wire[m] = bytes

VARIABLES machine,   \* constant
          held,      \* held[c]: what the user of c holds down
          native     \* the machine's keys and buttons

inputvars == <<vars, machine, held, native>>

InputInit ==
    /\ Init
    /\ machine \in Machines
    /\ held = [c \in Client |-> {}]
    /\ native = Idle

(* A user presses what is up and releases what is down.                    *)
user_toggles(c, x) ==
    LET down == x \notin held[c] IN
    /\ held' = [held EXCEPT ![c] = Pressed(@, x, down)]
    /\ client_send(c, Wire[ToggleMessage(x, down)])
    /\ UNCHANGED <<ctrlproto, machine, native>>

other_network ==
    /\ \E c \in Client : \/ \E h \in Handshakes : connect(c, h)
                         \/ client_close(c)
                         \/ datagram_lost(c)
    /\ UNCHANGED <<ctrlproto, machine, held, native>>

(* The server's step; what it replays is done to the machine.              *)
served ==
    /\ Server \/ Datagrams
    /\ native' = IF Len(replayed') > Len(replayed) /\ Last(replayed') \in Messages
                 THEN sdlmsg_replay(machine, NoRect, native, Read(Last(replayed')))
                 ELSE native
    /\ UNCHANGED <<machine, held>>

InputNext ==
    \/ \E c \in Client : \E x \in Toggled[ctrlproto][c] : user_toggles(c, x)
    \/ other_network
    \/ served

InputSpec == InputInit /\ [][InputNext]_inputvars

(* The server thread runs; what a client does is its own business.         *)
FairInputSpec == InputSpec /\ WF_inputvars(Server /\ served)

-----------------------------------------------------------------------------
(***************************************************************************)
(* When all that the served TCP client has sent is replayed, a key of the  *)
(* server's machine that is down is held by the user of that client, or    *)
(* was held by one who left; and a key that the user holds is down, unless *)
(* another key of the user's shares the server's key: of two that do,      *)
(* whichever is released last releases it.  The same for buttons.  (Over   *)
(* UDP, a lost release leaves a key down: no property.)                    *)
(***************************************************************************)
CaughtUp == Serving /\ Len(replayed) = Len(sent[cur])

NativeKey(x) == SDLKeyToKeySym(machine, x)

HeldByAny == UNION {held[c] : c \in {d \in Client : d = cur \/ client[d] = "closed"}}

Alone(x) == \A y \in Keys : y # x => NativeKey(y) # NativeKey(x)

NoStuckKeys ==
    CaughtUp =>
        /\ native.keys \subseteq {NativeKey(x) : x \in HeldByAny \cap Keys}
        /\ native.buttons \subseteq {SDL_BUTTON(x) : x \in HeldByAny \cap Buttons}
        /\ \A x \in held[cur] \cap Keys : Alone(x) /\ NativeKey(x) # NoKey
                                             => NativeKey(x) \in native.keys
        /\ \A x \in held[cur] \cap Buttons : SDL_BUTTON(x) \in native.buttons
=============================================================================
