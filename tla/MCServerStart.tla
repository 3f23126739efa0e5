--------------------------- MODULE MCServerStart ---------------------------
(***************************************************************************)
(* Small instance of ServerStart.  The texts set options plainly and by    *)
(* key, before and after each other, in included files and in one that     *)
(* includes itself; each is read on every back end.  Screens are some      *)
(* pixels wide; windows lie inside, at the edge, and partly outside, with  *)
(* sides of odd and even length.  Two threads contend for each end of a    *)
(* pool with fewer buffers than threads, so that frames are lost and the   *)
(* exit of allocate_data, after which the process is gone, is reached.     *)
(***************************************************************************)
EXTENDS ServerStart

Set(o, v)      == [kind |-> "set", option |-> o, value |-> v]
Entry(o, k, v) == [kind |-> "entry", option |-> o, key |-> k, value |-> v]
Include(f)     == [kind |-> "include", file |-> f]
Malformed      == [kind |-> "malformed"]
Skipped        == [kind |-> "skipped"]

(* The words of the files, and what the readers make of them.             *)
MCValue ==
    {"", "0", "8554", "8555", "70000", "yes", "no", "tcp", "a", "b",
     "gone x264", "x264", "aac", "gone", "h264", "bad"}

MCstrtol ==
    [v \in MCValue |->
        CASE v = "8554" -> 8554 [] v = "8555" -> 8555 [] v = "70000" -> 70000 [] OTHER -> 0]

MCcodecs ==
    [v \in MCValue |-> IF v = "gone x264" THEN <<"gone", "x264">> ELSE <<v>>]

Port    == Set("server-port", "8554")
Fps     == Set("video-fps", "8555")
Display == Set("display", "a")
Named  == Set("find-window-name", "a")
Codecs  == <<Set("video-encoder", "gone x264"), Set("audio-encoder", "aac")>>
Control == <<Set("control-enabled", "yes"), Set("control-port", "8555")>>

MCTexts ==
    {[main |-> <<Port, Fps, Entry("video-specific", 2, "a"), Entry("video-specific", 1, "b"),
                 Include("more"), Set("control-enabled", "no")>>,
      more |-> more] :
        more \in {Codecs \o <<Entry("video-specific", 2, "b")>>,
                  Codecs \o <<Set("video-specific", "a"), Entry("video-specific", 3, "a")>>,
                  <<Set("control-enabled", "yes"), Set("server-port", "70000"), Skipped>>}}
    \cup
    {[main |-> <<Set("control-enabled", "yes"), Fps, Include("more"), Port>>,
      more |-> more] :
        more \in {Codecs \o <<Set("control-port", "8555")>>, <<Set("control-port", "0")>>,
                  <<Include("gone")>>, <<Include("more")>>, <<Malformed>>}}
    \cup
    {[main |-> <<Port, Fps, Display, Named>> \o Codecs \o Control],
     [main |-> <<Port, Fps, Entry("server-port", 1, "a"), Entry("video-decoder", 1, "a")>>],
     [main |-> <<Port, Fps, Entry("server-port", 1, "a")>>],
     [main |-> <<Port, Fps, Named, Set("video-encoder", "x264")>>, more |-> <<>>],
     [main |-> <<Named>>], [more |-> <<>>],
     [main |-> <<Port, Fps, Set("video-encoder", "gone")>>],
     [main |-> <<Fps, Set("video-decoder", "h264"), Set("control-enabled", "a")>>]}

(* A server, and a client with a URL of each form.                         *)
Url(scheme, port) == [scheme |-> scheme, all |-> "a", name |-> "b", port |-> port]

MCUrls ==
    {NoUrl, Url("rtsp", NoPort), Url("rtsp", "8555"), Url("rtsp", ""), Url("http", NoPort)}

Square == [width |-> 4, height |-> 4]
Odd    == [width |-> 5, height |-> 3]

At(x, y, w, h, edge) ==
    [name |-> "a", left |-> x, top |-> y, width |-> w, height |-> h, border |-> edge]

(* Inside the screen, over its edges, and with a border; behind a window   *)
(* of another name, and before another of the same.                        *)
Other == [At(0, 0, 4, 4, 0) EXCEPT !.name = "b"]

MCDesktops ==
    {<<Other, w, At(0, 0, 2, 2, 0)>> :
        w \in {At(x, 1 - x, w, 3 - x, 0) : x \in {0, 1}, w \in {2, 3}}
             \cup {At(1, 1, 2, 2, 1), At(1, 1, 3, 2, 0), At(2, 1, 3, 2, 0), At(1, 3, 3, 2, 0)}}

Asked(channels, format) ==
    [device_format |-> format, channel_layout |-> "stereo", channels |-> channels,
     samplerate |-> 44]

Alsa(channels, period) ==
    [interface |-> "alsa", busy |-> FALSE, interleaved |-> TRUE, formats |-> {"s16"},
     channels |-> channels, period |-> period, buffer_size |-> 16]

Wasapi(tag, rate, bits) ==
    [interface |-> "wasapi", tag |-> tag, channels |-> 2, samplerate |-> rate,
     bits |-> bits, buffer_size |-> 16]

On(b, screen, padding, dev, audio) ==
    [backend |-> b, width |-> screen.width, height |-> screen.height,
     pitch |-> screen.width + padding, dev |-> dev, audio |-> audio]

(* Each back end with a device that suits it, and some that do not.        *)
One == On("xwin", Square, 0, Alsa({2}, 4), Asked(2, "s16"))

MCMachines ==
    {One,
     On("xwin", Odd, 0, Alsa({2}, 4), Asked(2, "s16")),
     On("d3d", Square, 1, Wasapi("extensible float", 44, 32), Asked(1, "s16")),
     On("d3d", Odd, 0, Wasapi("extensible float", 44, 32), Asked(2, "s16")),
     On("gdi", Odd, 0, Wasapi("pcm", 44, 16), Asked(2, "s16")),
     On("dfm", Square, 0, Wasapi("pcm", 44, 16), Asked(2, "s16")),
     On("dfm", Odd, 0, Wasapi("pcm", 44, 16), Asked(2, "s16")),
     On("osx", Square, 0, Wasapi("pcm", 44, 16), Asked(2, "s16"))}
    \cup
    {On("xwin", Square, 0, dev, Asked(2, "s16")) :
        dev \in {Alsa({1}, 4), Alsa({2}, 16),
               [Alsa({2}, 4) EXCEPT !.busy = TRUE]}}
    \cup
    {On("gdi", Square, 0, dev, Asked(2, "s16")) :
        dev \in {Wasapi("pcm", 48, 16), Wasapi("pcm", 44, 24), Wasapi("float", 44, 32)}}
    \cup
    {On("gdi", Square, 0, Wasapi("pcm", 44, 16), Asked(2, "u8"))}

(* What files say of options, and what URLs say, is the same on every      *)
(* machine: one will do.                                                   *)
MCInit ==
    /\ StartInit
    /\ url # NoUrl \/ "more" \in DOMAIN text => machine = One

MCSpec == MCInit /\ [][StartNext]_allvars

Symmetry ==
    Permutations(Buffer) \cup Permutations(Producer) \cup Permutations(Consumer)
    \cup Permutations(Frame)
=============================================================================
