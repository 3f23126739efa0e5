--------------------------- MODULE ScreenCapture ---------------------------
(***************************************************************************)
(* Where a captured frame comes from and where it goes: the rectangle of   *)
(* the window to crop (core/ga-common.cpp), the image each back end of     *)
(* module/vsource-desktop reads, and the planes of the converted frame     *)
(* (module/filter-rgb2yuv).  Lengths and addresses are in pixels for the   *)
(* captured RGBA image, in bytes for the planes of the converted one.      *)
(*                                                                         *)
(* A machine is a record: the back end compiled in, the size of its        *)
(* screen and the pitch from row to row of its image memory.  A window is  *)
(* one, too: the corner and the size inside its border, and the border.    *)
(***************************************************************************)
EXTENDS Integers

CONSTANT NoRect      \* the null struct gaRect pointer: nothing is cropped

RGBA_SIZE == 4       \* bytes of a captured pixel

(* Mutants of the operators below.                                         *)
odd_kept(lo, hi) == lo

visible_to_width(machine, r) ==      \* right and bottom compared with >
    r.left >= 0 /\ r.top >= 0 /\ r.right <= machine.width /\ r.bottom <= machine.height

-----------------------------------------------------------------------------
Lower(a, b)  == IF a > b THEN b ELSE a
Higher(a, b) == IF a > b THEN a ELSE b

ga_fillrect(r) ==
    LET f == [left |-> Lower(r.left, r.right), right  |-> Higher(r.left, r.right),
              top  |-> Lower(r.top, r.bottom), bottom |-> Higher(r.top, r.bottom)]
    IN  [left |-> f.left, top |-> f.top, right |-> f.right, bottom |-> f.bottom,
         width |-> f.right - f.left + 1, height |-> f.bottom - f.top + 1]

(* On Windows ga_crop_window moves the window to the corner of the screen; *)
(* left and top are those of the area inside its border.                   *)
SetWindowPos(machine, w) ==
    IF machine.backend = "xwin" THEN w ELSE [w EXCEPT !.left = w.border, !.top = w.border]

(***************************************************************************)
(* The corners that ga_crop_window gets: from GetClientRect and            *)
(* ClientToScreen on Windows, and from GetClientRectX, which combines the  *)
(* outer corner of the window's border with the size inside it.            *)
(***************************************************************************)
Corners(x, y, w) ==
    [left |-> x, right |-> x + w.width - 1, top |-> y, bottom |-> y + w.height - 1]

GetClientRect(w) == Corners(w.left, w.top, w)

GetClientRectX(w) == Corners(w.left - w.border, w.top - w.border, w)

client_rect(machine, w) ==
    IF machine.backend = "xwin" THEN GetClientRectX(w) ELSE GetClientRect(w)

(* The left or upper side moves out by one when the length is odd.         *)
even_from(lo, hi) == IF (hi - lo + 1) % 2 # 0 THEN lo - 1 ELSE lo

even_rect(r) ==
    [r EXCEPT !.left = even_from(r.left, r.right),
              !.top  = even_from(r.top, r.bottom)]

visible(machine, r) ==
    r.left >= 0 /\ r.top >= 0 /\ r.right < machine.width /\ r.bottom < machine.height

-----------------------------------------------------------------------------
(* The image as the back end's init describes it (struct gaImage): lines   *)
(* of the XImage may be padded, the others report lines without padding.   *)
ImageOf(machine, line) ==
    [width |-> machine.width, height |-> machine.height, bytes_per_line |-> line]

ga_xwin_init(machine) == ImageOf(machine, machine.pitch)

ga_win32_GDI_init(machine) == ImageOf(machine, machine.width)

ga_win32_D3D_init(machine) == ImageOf(machine, machine.width)

ga_win32_DFM_init(machine) == ImageOf(machine, machine.width)

ga_osx_init(machine) == ImageOf(machine, machine.width)

image_init(machine) ==
    CASE machine.backend = "xwin" -> ga_xwin_init(machine)
      [] machine.backend = "gdi"  -> ga_win32_GDI_init(machine)
      [] machine.backend = "d3d"  -> ga_win32_D3D_init(machine)
      [] machine.backend = "dfm"  -> ga_win32_DFM_init(machine)
      [] machine.backend = "osx"  -> ga_osx_init(machine)

(***************************************************************************)
(* A capture is a set of block copies: from an address of the image memory *)
(* to one of the frame's buffer.  Cropped, a frame is copied line by line. *)
(***************************************************************************)
CopyLines(r, base, step) ==
    {[from |-> base + step * i, to |-> r.width * i, length |-> r.width] :
        i \in 0..(r.height - 1)}

CopyBlock(n) == {[from |-> 0, to |-> 0, length |-> n]}

WholeScreen(machine) ==
    [left |-> 0, top |-> 0, width |-> machine.width, height |-> machine.height]

(***************************************************************************)
(* The calls that bring the screen into the image memory.  When one fails  *)
(* X's capture ends the process.  That of BitBlt, GetFrontBufferData or    *)
(* CGDisplayCreateImage is not asked after: the image is "stale", an older *)
(* one of the screen, or blank.  When the image memory is not given        *)
(* (LockRect, CGBitmapContextGetData) it is "unread", and nothing copied.  *)
(***************************************************************************)
capture_calls(machine) ==
    {"succeed"} \cup
    (CASE machine.backend = "xwin" -> {"exit"}
       [] machine.backend = "gdi"  -> {"stale"}
       [] machine.backend = "dfm"  -> {}
       [] machine.backend \in {"d3d", "osx"} -> {"stale", "unread"})

(* The buffer is large enough for the rectangle, or for frameSize.         *)
Room(machine, buflen, r) ==
    IF r = NoRect THEN buflen >= machine.width * machine.height
                  ELSE buflen >= r.width * r.height

ga_xwin_capture(machine, buflen, r) ==
    IF r = NoRect THEN CopyBlock(buflen)
    ELSE CopyLines(r, machine.pitch * r.top + r.left, machine.pitch)

(* GDI keeps its image upside-down: lines are read from the last one up.   *)
ga_win32_GDI_capture(machine, buflen, r) ==
    LET line == machine.width
        area == IF r = NoRect THEN WholeScreen(machine) ELSE r
    IN  IF Room(machine, buflen, r)
        THEN CopyLines(area, line * (machine.height - 1 - area.top) + area.left, - line)
        ELSE {}

ga_win32_D3D_capture(machine, calls, buflen, r) ==
    IF ~Room(machine, buflen, r) \/ calls = "unread" THEN {}
    ELSE IF r = NoRect THEN CopyBlock(machine.pitch * machine.height)
    ELSE CopyLines(r, machine.pitch * r.top + r.left, machine.pitch)

(* Nothing is copied unless the mirror driver is connected.                *)
ga_win32_DFM_capture(machine, driver, buflen, r) ==
    IF driver # "connected" \/ ~Room(machine, buflen, r) THEN {}
    ELSE IF r = NoRect THEN CopyBlock(machine.width * machine.height)
    ELSE CopyLines(r, machine.width * r.top + r.left, machine.width)

ga_osx_capture(machine, calls, buflen, r) ==
    IF ~Room(machine, buflen, r) \/ calls = "unread" THEN {}
    ELSE IF r = NoRect THEN CopyBlock(machine.width * machine.height)
    ELSE CopyLines(r, machine.width * r.top + r.left, machine.width)

capture(machine, driver, calls, buflen, r) ==
    CASE machine.backend = "xwin" -> ga_xwin_capture(machine, buflen, r)
      [] machine.backend = "gdi"  -> ga_win32_GDI_capture(machine, buflen, r)
      [] machine.backend = "d3d"  -> ga_win32_D3D_capture(machine, calls, buflen, r)
      [] machine.backend = "dfm"  -> ga_win32_DFM_capture(machine, driver, buflen, r)
      [] machine.backend = "osx"  -> ga_osx_capture(machine, calls, buflen, r)

(* What the image memory holds: a pixel of the screen, or none.            *)
NoPixel == <<>>

PixelAt(machine, a) ==
    LET line == IF machine.backend \in {"xwin", "d3d"} THEN machine.pitch ELSE machine.width
        x == a % line
        y == IF machine.backend = "gdi" THEN machine.height - 1 - a \div line ELSE a \div line
    IN  IF a >= 0 /\ x < machine.width /\ y \in 0..(machine.height - 1)
        THEN <<x, y>> ELSE NoPixel

(* The buffer after a capture, as far as the capture has written it.       *)
Filled(machine, copies) ==
    [a \in UNION {c.to..(c.to + c.length - 1) : c \in copies} |->
        LET c == CHOOSE d \in copies : a \in d.to..(d.to + d.length - 1)
        IN  PixelAt(machine, c.from + a - c.to)]

-----------------------------------------------------------------------------
(***************************************************************************)
(* The planes the filter has sws_scale write, by their place in the buffer *)
(* and their line size (dst, dststride), and the bytes sws_scale writes    *)
(* there: half of the columns and lines, rounded up, for the chroma.       *)
(***************************************************************************)
Half(n) == (n + 1) \div 2

Plane(at, stride, width, height) ==
    UNION {(at + stride * i)..(at + stride * i + width - 1) : i \in 0..(height - 1)}

YPlane(w, h) == Plane(0, w, w, h)
UPlane(w, h) == Plane(h * w, w \div 2, Half(w), Half(h))
VPlane(w, h) == Plane(h * w + (h * w) \div 4, w \div 2, Half(w), Half(h))
=============================================================================
