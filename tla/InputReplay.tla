---------------------------- MODULE InputReplay ----------------------------
(***************************************************************************)
(* What a user's key or mouse does on the server's machine: the events     *)
(* that the client's main loop turns into messages (ProcessEvent of        *)
(* client/ga-client.cpp and the builders of client/ctrl-sdl.cpp), and      *)
(* their replay (module/ctrl-sdl/ctrl-sdl.cpp).                            *)
(*                                                                         *)
(* Keys are represented by some that the tables treat differently.  A      *)
(* message is a record; its numbers are unsigned and 16 bits wide.  What   *)
(* is kept of the machine is a record, too: the keys and buttons that are  *)
(* down, how far the wheel was turned, and where the pointer is.           *)
(***************************************************************************)
EXTENDS ScreenCapture, Sequences

CONSTANTS NoKey,      \* INVALID_KEY
          Anywhere    \* the pointer before it was moved

ASSUME Nowhere == Anywhere \notin Int \X Int

U16(n) == n % 65536

Short(n) == IF n < 32768 THEN n ELSE n - 65536

-----------------------------------------------------------------------------
(* The messages, and the events they come from.                            *)

sdlmsg_keyboard(pressed, key) ==
    [msgtype |-> "keyboard", is_pressed |-> pressed, sdlkey |-> key]

sdlmsg_mousekey(pressed, button) ==
    [msgtype |-> "mousekey", is_pressed |-> pressed, mousebutton |-> button]

sdlmsg_mousewheel(x, y) ==
    [msgtype |-> "mousewheel", mousex |-> U16(x), mousey |-> U16(y)]

sdlmsg_mousemotion(x, y, relative) ==
    [msgtype |-> "mousemotion", mousex |-> U16(x), mousey |-> U16(y),
     relativeMouseMode |-> relative]

KeyEvent(down, key)  == [type |-> "key", down |-> down, sym |-> key]
ButtonEvent(down, b) == [type |-> "button", down |-> down, button |-> b]
WheelEvent(x, y)     == [type |-> "wheel", x |-> x, y |-> y]

(* A motion has the position in the window, and the distance moved.        *)
MotionEvent(x, y, xrel, yrel) ==
    [type |-> "motion", x |-> x, y |-> y, xrel |-> xrel, yrel |-> yrel]

(* Fingers are placed on a scale from 0 to 32767.                          *)
FingerEvent(phase, x, y) == [type |-> "finger", phase |-> phase, x |-> x, y |-> y]

MouseEvents(e, conf) ==
    CASE e.type = "motion" ->
           IF conf.relativeMouseMode
           THEN <<sdlmsg_mousemotion(e.xrel, e.yrel, TRUE)>>
           ELSE <<sdlmsg_mousemotion(e.x, e.y, FALSE)>>
      [] e.type = "wheel" ->       \* motion.x is where the event has wheel.y
           <<sdlmsg_mousewheel(e.y, 0)>>

Mapped(size, at) == ((size - 1) * at) \div 32767

FingerEvents(e, conf) ==
    LET motion == <<sdlmsg_mousemotion(Mapped(conf.windowSizeX, e.x),
                                       Mapped(conf.windowSizeY, e.y), FALSE)>>
    IN  IF conf.windowSizeX = 0 THEN <<>>
        ELSE CASE e.phase = "down"   -> motion \o <<sdlmsg_mousekey(TRUE, 1)>>
               [] e.phase = "up"     -> motion \o <<sdlmsg_mousekey(FALSE, 1)>>
               [] e.phase = "motion" -> motion

(* The messages that the client hands to ctrl_client_sendmsg for an event. *)
ProcessEvent(e, conf) ==
    IF ~conf.ctrlenable THEN <<>>
    ELSE CASE e.type = "key"    -> <<sdlmsg_keyboard(e.down, e.sym)>>
           [] e.type = "button" -> <<sdlmsg_mousekey(e.down, e.button)>>
           [] e.type \in {"motion", "wheel"} ->
                IF conf.sendmousemotion THEN MouseEvents(e, conf) ELSE <<>>
           [] e.type = "finger" -> FingerEvents(e, conf)

-----------------------------------------------------------------------------
(***************************************************************************)
(* The tables SDLKeyToKeySym_init fills.  On Windows and Mac OS X the      *)
(* signs above comma, period and the like have the key of the sign below;  *)
(* X keeps them apart, but XKeysymToKeycode finds a key of the keyboard,   *)
(* which for both is usually the same, and none for some.  The two command keys of the Mac    *)
(* are one; it has no pause key, and only X has undo.                      *)
(***************************************************************************)
SDLKey == {"a", "comma", "less", "lmeta", "rmeta", "pause", "undo", "exclaim"}

keymap_win32(k) ==
    CASE k \in {"a", "comma", "lmeta", "rmeta", "pause"} -> k
      [] k = "less" -> "comma"
      [] OTHER -> NoKey

keymap_osx(k) ==
    CASE k \in {"a", "comma"} -> k
      [] k = "less" -> "comma"
      [] k \in {"lmeta", "rmeta"} -> "command"
      [] OTHER -> NoKey

keymap_x11(k) == k

XKeysymToKeycode(sym) ==
    CASE sym = "less" -> "comma" [] sym = "exclaim" -> "1" [] sym = "undo" -> NoKey
      [] OTHER -> sym

OnWindows(machine) == machine.backend \in {"gdi", "d3d", "dfm"}

(* The key of the server's machine, or NoKey.                              *)
SDLKeyToKeySym(machine, k) ==
    IF OnWindows(machine) THEN keymap_win32(k)
    ELSE IF machine.backend = "osx" THEN keymap_osx(k)
    ELSE XKeysymToKeycode(keymap_x11(k))

-----------------------------------------------------------------------------
(* What the systems' calls do to the machine.                              *)
Idle == [keys |-> {}, buttons |-> {}, wheel |-> 0, pointer |-> Anywhere]

Pressed(set, x, down) == IF down THEN set \cup {x} ELSE set \ {x}

PostKey(n, key, down) == [n EXCEPT !.keys = Pressed(@, key, down)]

PostButton(n, b, down) == [n EXCEPT !.buttons = Pressed(@, b, down)]

Scroll(n, by) == [n EXCEPT !.wheel = @ + by]

MoveTo(n, p) == [n EXCEPT !.pointer = p]

(* In X the buttons 4 and 5 are the wheel.                                 *)
XTestFakeButtonEvent(n, b, down) ==
    LET turned == IF ~down THEN 0 ELSE IF b = 4 THEN 1 ELSE IF b = 5 THEN -1 ELSE 0
    IN  Scroll(PostButton(n, b, down), turned)

(* SendInput counts positions from 0 to 65535 and rounds down.             *)
SendInput(n, dx, dy, machine) ==
    MoveTo(n, <<(dx * machine.width) \div 65536, (dy * machine.height) \div 65536>>)

corner_dropped(rect, msg) == <<msg.mousex, msg.mousey>>               \* mutant

(* A position in the cropped rectangle is one on the screen.               *)
on_screen(rect, msg) ==
    IF rect = NoRect THEN <<msg.mousex, msg.mousey>>
                     ELSE <<rect.left + msg.mousex, rect.top + msg.mousey>>

release_ignored(machine, n, msg) ==                                    \* mutant
    LET key == SDLKeyToKeySym(machine, msg.sdlkey)
    IN  IF key = NoKey \/ ~msg.is_pressed THEN n ELSE PostKey(n, key, TRUE)

replay_key(machine, n, msg) ==
    LET key == SDLKeyToKeySym(machine, msg.sdlkey)
    IN  IF key = NoKey THEN n ELSE PostKey(n, key, msg.is_pressed)

(* mousey would turn the wheel sideways; ProcessEvent leaves it 0.         *)
Turned(msg) ==
    IF Short(msg.mousex) > 0 THEN 1 ELSE IF Short(msg.mousex) < 0 THEN -1 ELSE 0

wheel_button(b) == IF b = 4 THEN 1 ELSE -1

button_win32(n, msg) ==
    IF msg.mousebutton \in 1..3 THEN PostButton(n, msg.mousebutton, msg.is_pressed)
    ELSE IF msg.mousebutton \in {4, 5} /\ msg.is_pressed
    THEN Scroll(n, wheel_button(msg.mousebutton)) ELSE n

motion_win32(machine, rect, n, msg) ==
    LET p == on_screen(rect, msg) IN
    IF ~msg.relativeMouseMode
    THEN SendInput(n, (65536 * p[1]) \div machine.width,
                      (65536 * p[2]) \div machine.height, machine)
    ELSE IF n.pointer = Anywhere THEN n
    ELSE MoveTo(n, <<n.pointer[1] + Short(msg.mousex), n.pointer[2] + Short(msg.mousey)>>)

native_win32(machine, rect, n, msg) ==
    CASE msg.msgtype = "keyboard"    -> replay_key(machine, n, msg)
      [] msg.msgtype = "mousekey"    -> button_win32(n, msg)
      [] msg.msgtype = "mousewheel"  -> Scroll(n, Turned(msg))
      [] msg.msgtype = "mousemotion" -> motion_win32(machine, rect, n, msg)

(* The wheel turns by five lines, the other way round than on Windows.     *)
lines_osx(turned) == -5 * turned

(* A click is posted where the last motion went, at first at the corner.   *)
button_osx(n, msg) ==
    IF msg.mousebutton \in 1..3
    THEN MoveTo(PostButton(n, msg.mousebutton, msg.is_pressed),
                IF n.pointer = Anywhere THEN <<0, 0>> ELSE n.pointer)
    ELSE IF msg.mousebutton \in {4, 5} /\ msg.is_pressed
    THEN Scroll(n, lines_osx(wheel_button(msg.mousebutton))) ELSE n

native_osx(machine, rect, n, msg) ==
    CASE msg.msgtype = "keyboard"    -> replay_key(machine, n, msg)
      [] msg.msgtype = "mousekey"    -> button_osx(n, msg)
      [] msg.msgtype = "mousewheel"  -> Scroll(n, lines_osx(Turned(msg)))
      [] msg.msgtype = "mousemotion" -> MoveTo(n, on_screen(rect, msg))

(* The wheel is a button pressed and released.                             *)
wheel_x11(n, msg) ==
    LET b == IF Turned(msg) > 0 THEN 4 ELSE 5 IN
    IF msg.mousex = 0 THEN n
    ELSE XTestFakeButtonEvent(XTestFakeButtonEvent(n, b, TRUE), b, FALSE)

native_x11(machine, rect, n, msg) ==
    CASE msg.msgtype = "keyboard"    -> replay_key(machine, n, msg)
      [] msg.msgtype = "mousekey"    -> XTestFakeButtonEvent(n, msg.mousebutton, msg.is_pressed)
      [] msg.msgtype = "mousewheel"  -> wheel_x11(n, msg)
      [] msg.msgtype = "mousemotion" -> MoveTo(n, on_screen(rect, msg))

(* sdlmsg_replay_callback, which does not look at the message's size.      *)
sdlmsg_replay(machine, rect, n, msg) ==
    IF OnWindows(machine) THEN native_win32(machine, rect, n, msg)
    ELSE IF machine.backend = "osx" THEN native_osx(machine, rect, n, msg)
    ELSE native_x11(machine, rect, n, msg)

(* The rectangle that sdlmsg_replay_init keeps.                            *)
replay_rect(rect) == IF rect = NoRect THEN NoRect ELSE ga_fillrect(rect)
=============================================================================
