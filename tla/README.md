# A TLA+ verification of internet-thermostat

The repository holds the firmware of a room thermostat: an ATmega32 that
measures a temperature, drives four relays (two heaters, air conditioning, fan),
shows the temperature or the setpoint on a four-digit display, takes the setpoint
from a rotary encoder, and serves a web page through an ENC28J60 Ethernet
controller. It is bare C: one endless main loop and one interrupt handler, with
no operating system and nothing persisted but the IP address.

This directory holds TLA+ modules that model it, TLC configurations that check
them on small instances, and proofs that TLAPS checks for every value of the
constants. `PROJECT.json` is the index: components, runs, theorems, the lines of
source behind each definition, the hazards, and what was found.

To check a module: `tlc -config MCRelays.cfg MCRelays.tla`.
To check the proofs: `tlapm RelaysProofs.tla`, and likewise for the other modules
named `...Proofs`.

## 1. Inventory

Files are under `src/src/` unless another directory is named.

| Component | State | Operations | Modules |
|---|---|---|---|
| main loop, `main.c` | the hardware registers it sets up | `main`, `server_process` | `Thermostat`, `ThermostatProofs`, `ServerProcess` |
| relay controller, `relays.c` | `relays_cnt0`, three demands, six `hvac_*` flags, `PORTC` | `control_relays` | `Relays`, `RelaysProofs` |
| rotary encoder, `rotaryencoder.c` | `rot_enc_flag`, `rot_enc_change`, `desired_temp`, `TCNT0`, `TCNT1` | `ISR(INT2_vect)`, `check_rotary` | `RotaryEncoder`, `RotaryProofs` |
| temperature, `adc.c` | `adc0_sum`, `x`, `adc0_valid`, `adc0_temp`, the compensation and its source | `adc0_data` | `Adc`, `TempSensor`, `AdcProofs` |
| display, `display.c`, and the digit helpers of `adc.c` and `rotaryencoder.c` | the pins it lights, the floats it reads | `update_display`, `*_read_temp1..3`, `adc_read_compensation1..3` | `Display`, `DisplayProofs` |
| web server, `http.c` | `post_data`, `web_page`, the address filter, `packet` | `http_webserver_process`, `http_home` | `HttpServer`, `HttpProofs`, `Pages` (proofs in `RelaysProofs`); each command is in the module whose state it changes |
| TCP, `tcp.c` | `seqnum`, the `prev_dlength*` globals | `tcp_send_packet`, `tcp_get_dlength` | `TcpReply`, `ServerProcess`, `ServerProofs` |
| ARP, IP, ICMP, Ethernet: `arp.c`, `ip.c`, `icmp.c`, `ethernet.c` | the one frame buffer, `ip_identfier` | `arp_send_reply`, `icmp_send_reply`, the headers, `software_checksum` | `ServerProcess`, `ServerProofs` |
| Ethernet driver, `enc28j60.c` | `Enc28j60Bank`, `next_packet_ptr`; in the controller the receive ring, its pointers and count, the transmit area | `enc28j60_init`, `enc28j60_packet_receive`, `enc28j60_packet_send` | `Enc28j60`, `FrameQueue`, `Enc28j60Proofs` |

**How they interact.** Everything shares global variables. A pass of the main
loop calls `server_process`, `adc0_data`, `update_display`, `check_rotary` and
`control_relays`, in this order. The interrupt of the dial may come between any
two instructions. `desired_temp` is written by `check_rotary` and by a web
command and read by `control_relays`, the display and the pages; `rot_enc_change`
is set by the interrupt and by a web command, cleared by `check_rotary`, and
holds `control_relays` as long as it is set; `adc0_temp` and `adc0_valid` go from
the measurement to the relays; the web commands write the `hvac_*` flags that the
relay controller reads. A frame goes from the controller's ring into `rxtx_buffer`;
the answer is written over it and goes into the transmit area.

**What is hard to get right.**

- *Interleaving*: the interrupt and `check_rotary` share two flags and two
  free-running timers, without ever disabling interrupts.
- *Boundaries*: a count tested for equality (`relays_cnt0`, `x`), timers tested
  once per pass that wrap, sequence numbers carried byte by byte, a page that
  must fit its buffer.
- *Long sequences of legal commands*: switches, modes and holds that combine on
  the five early-return paths of `control_relays`.
- *Unreliable delivery*: commands toggle, and TCP sends them again; a POST may
  come in two segments, and the memory of the first is shared by all clients.
- *Two machines*: the Ethernet controller receives and sends while the driver reads
  its registers one by one, caches which bank of them is selected, and frees its ring.
- *One buffer*: every answer overwrites what it answers.
- *Floats*: temperatures move by 0.1, which no float holds, and are cut into digits.
- *Liveness*: every hold must end, every click be taken, averages go on being
  published, every request be answered.

**What makes each component correct.**

- relays: pins that exclude each other; relays that do not work against the
  temperature for as long as a count; starts spaced by the count, unless a switch is
  used; off means off.
- dial: each click counts once and in its direction, whatever its contact does as it
  closes; the view opens at once, closes after the window and never sticks.
- temperature: each average is an average of the readings since the last one;
  the compensation belongs to the power source that is shown.
- web server: only the owner of the address filter changes things; an answered
  command was run, but for three cases of a request torn in two; a command runs again only when
  its answer was lost or its request was sent again; every request is answered.
- frames: an answer goes to whom it answers, with lengths and checksums that agree
  with it; the parts of a page join without a gap.
- driver: it is a queue of frames: each accepted frame is handed over once, whole,
  in order; what is sent goes out.
- display: every digit is one, and what is shown is what was asked for.
- pages: they fit, their buttons work for whom the address filter lets pass, and in
  automatic mode what they say is true.

The hazards themselves, each at its line and with the properties that cover it,
are listed in `PROJECT.json`.

## 2. The modules

Each variable has the name of the C variable or register; `h_*` are history variables,
which record what happened for a property to speak about and guard nothing but the
bounds `MaxInputs` and `MaxPosts`. Definitions named `X_Variant` are faulty versions of
`X`, one for each property: put in the place of `X`, they make TLC report that property
as violated, which shows that the property can fail.

**Relays** (`relays.c:20-105`, command `3Fhvac`). `ControlRelays` is one call of
`control_relays`, a disjunct for each way through it: `NotReady`, `SystemOff`,
`HoldForDial`, `Evaluate`. `PORTC` is the set of pins driven high. The sensor
and the setpoint are free (`SensorPublish`, `AdjustSetpoint`): they may move at
any time, to any value of `Temps` and `Setpoints`. Three histories are kept by
`Evaluate` and the commands: `h_since`, the passes outside the band since a demand was
last raised, which nothing but a demand sends back; `h_wrong`, the evaluations on end
that left relays on against the temperature, in terms of the pins and not of the
demands, ended by switching off because the relays then are off; and `h_commanded`,
whether a switch command has come since the last evaluation. The writes of single bits
to `PORTC` are one step (`Drive`).

**RotaryEncoder** (`rotaryencoder.c:11-48`, command `3Fsub`). `check_rotary` is
cut into five actions, at every access to what the interrupt shares: `Sample`
(the test of flag, timer and pins), `Step` (setpoint, then flag), `CheckWindow`,
`ClearChange`, `ClearTimer`. `ISR` is part of the movement of the dial that
makes PB2 fall. `Tick` is a tick of both timers, which share a prescaler. There
are two users: `Turn` moves the dial at any speed and in any direction;
`BeginClick`, `Bounce`, `EndClick` are a steady hand, whose contact bounces for
as long as the code waits, when the click closes it and when the release opens it.
`released` tells the two apart, and `h_phantoms` counts the interrupts of a release that
were flagged as a click: such a flag waits, hides the next click from the handler
(`rotaryencoder.c:13`), and lets it be read without the wait. `MCRotaryEncoder` puts the
dial into the hands of either, chosen once by `hand`; what is promised of a steady hand alone is checked as
`SteadySetpointExact` and `SteadyClickServed`.

**Adc** (`adc.c:33-72`, command `3Fadcsrc`) refines the abstract **TempSensor**:
an average lies between the highest reading taken since the last average and one
step of the converter below the lowest. The step below is needed: the first long
window is a reading short of its divisor (see *Findings*).

**Thermostat** composes `Relays` and `RotaryEncoder` with the main loop. `pc` is
the next call; inside `check_rotary` it is also the label of `RotaryEncoder`, and
elsewhere the dial sees `"elsewhere"`. The measurement is `Relays!SensorPublish`
or nothing.

**HttpServer** (`http.c:22-478`). One frame waits in the receive ring for each
segment with data; `Serve` takes the first. The four ways through the handler are
`ServePage` (not a POST), `ServeCommand`, `ServeHeader` (the first segment of a
split POST: `post_data` is set and nothing is sent) and `ServeNoCommand`.
`Execute` is the chain of `http_get_variable` calls. `FilterPass` stands for
`mac_filter_pass`, which the code works out again for each segment before it
uses it; it compares the last three bytes of the address. A client is a connection of a
browser, so that two of them may have one address. It asks, sends its segments, and gets
its answer, which is under way (`coming`) until `Arrive` delivers or loses it, in whole or
but for its acknowledgement. Its TCP sends again in time (`Retransmit`), when all that
arrived has been served and no answer is on its way, and too early (`RetransmitEarly`),
while a segment is in the ring or the answer is late. The code acknowledges one byte of
each segment, so after the answer the rest is sent again as well: `unacked` says what is
left, and a `tail` is a POST without its first byte. It is no POST to `http_get_post`, but
it still holds the command, which runs when `post_data` is set; an `end` holds none.
Left out, since they change nothing here: SYN and FIN, bare acknowledgements.
Reduced: a segment holds a command or does not, and what `http_get_variable`
reads past the end of a segment holds none, nor does part of a keyword match. `handed`
records the commands whose effect is in other modules: lights, dial, relays, sensor.

**TcpReply** (`tcp.c:100-225`). The two numbers of the header are changed in
place, byte by byte and digit by digit as in the code, for each of the up to four
packets of an answer. The base (16) and the number of bytes (4) are constants.

**ServerProcess** (`main.c:21-64`, `arp.c`, `ip.c`, `icmp.c`, `ethernet.c`,
`tcp.c:203-290`) is what is sent for each frame that comes in. `rxtx_buffer` is a
frame as a record of its fields; a `Receive*` action puts a request there and keeps
its addresses, an answering action updates the fields in the order the code does.
It instantiates `TcpReply` as `Numbers`, so that `SynAck`, `FinAck`, `Ack` and `Page`
are a step of `TcpReply` with the rest of the packet around it. `Answers` lists what
may follow a frame; whether a request gets a page is `HttpServer`'s matter and free
here. `software_checksum` works on the sum of the words, with the carries added back
as often as the code does; constant header fields are left out of the sums. An echo
carries data, one word standing for all; `EchoSum` takes it over the 40 bytes that the
code sums (`icmp.c:32`) and over the bytes that the receiver does. The
code verifies no checksum of what it receives, and neither does the model.

**Enc28j60** (`enc28j60.c`) has the driver and the controller. `pc` is the driver's
next access to what the controller changes too: `Poll` reads `EPKTCNT`,
`SetReadPointer`, `ReadHeader`, `ReadData`, then `FreeSpace` writes `ERXRDPT` and
`Done` decrements the count; `Send` and `CheckError` are `enc28j60_packet_send`.
Between any two, `Arrive` may accept a frame (good or damaged), or leave traces of a
discarded one in free cells, and `Transmit` ends a transmission. `Reset` is a restart
of the program at any point, which resets the controller, and `SetUp` the rest of
`enc28j60_init`. `Select` is `enc28j60SetBank`, with the cached and the real bank kept
apart; a register of another bank than the one selected reads anything. Cells of the
ring stand for bytes, so that frames wrap round its end in every way. It refines
**FrameQueue**: what the rest of the program may rely on.

**Display** (`display.c`, `adc.c:74-122`, `rotaryencoder.c:50-76`) computes with the
floats of the compiler, 24 significant bits, as integers with 2^21 to the degree;
`Tenth` is adding or subtracting 0.1 and `Nearest` the rounding. `shown` is the list
of positions lit by one refresh. That published temperatures are floats is an
assumption (`FloatsAssumption`); values below 4 degrees have finer spacings than the
model's unit and occur as whole units only. The main loop goes round, so that setpoint,
compensation, temperature and view may change between refreshes.

**Pages** (`http.c:484-1161`, the commands of `http.c:79-219`) extends `Relays` by the
page: for each part its length in bytes, counted from the text, for the home page what it
says is on and its lights, for the settings page its switches and buttons. A button can be
pressed on a page that is up to date, by the client that owns the address filter or by
another; each command but the choice of the page is under `mac_filter_pass`, and
`PressRefused` is a press by a client that the filter refuses: it gets the page, live
buttons and all, and changes nothing.

## 3. The runs

| Run | Checks | Result |
|---|---|---|
| `relays` | `TypeOK`, `Interlock`, `CountBelowEnd`, `WrongWayBounded`, `StartsSpaced`, `DemandServed` | hold |
| `relay_outputs` | `RelayPinsAreOutputs` | violated |
| `rotary` | `TypeOK`, `AtMostOnePerInput`, `WindowNotMissed`, `SteadySetpointExact`, `ClearOnlyWhenExpired`, `WindowCloses`, `SteadyClickServed` | hold |
| `rotary_view` | `ClickInView` | violated |
| `adc` | `TypeOK`, `SourceMatchesCompensation`, `Promise` (refinement), `KeepsPublishing` | hold |
| `thermostat` | `OffWithinPass`, `DialPart`, `RelaysPart` (refinements), `ColdRoomHeated` | hold |
| `display` | `Legible`, `ShowsSetpoint`, `CompensationNear` | hold |
| `frames` | `AnswersGoToAsker`, `LengthsAgree`, `ChecksumVerifies`, `Contiguous`, `AcksFirstByte` | hold |
| `http` | `OncePerLoss`, `AnsweredMeansDone`, `OnlyOwner`, `EveryRequestAnswered` | hold |
| `pages` | `FitsFrame`, `ButtonsWork`, `StatusTrueInAuto` | hold |
| `enc28j60` | `TypeOK`, `BankKnown`, `RingConsistent`, `Queue` (refinement) | hold |
| `enc28j60_send` | `SendsAgain` | violated |

**Bounds and why they are enough.**

- `relays`: `cnt0end` is 3 instead of 1500, `WordMod` 8. The count must be able to
  be at 0, in the middle and one before the end, and to wrap if the end were
  missed. Temperatures 190, 200, 260 (tenths of a degree) against setpoints 200 and
  210 put the difference below, at, inside and above both edges of the band, which
  is closed: -1 and +5 degrees are outside. The proofs lift these bounds.
- `rotary`, `rotary_view`: the timers are scaled, keeping the order
  `T0Debounce < MinLoop <= MaxLoop`, `MaxLoop + T0Debounce < T0Mod` and
  `T1Window + 2 MaxLoop < T1Mod` that `RotaryAssumption` demands. In the firmware
  both timers run at 16 MHz / 1024, a tick of 64 microseconds; the wait is 16 ticks,
  the window 45000 (2.88 s), a pass that serves no page takes 3 to 7 ms, about 50 to
  110 ticks, and the ranges are 256 and 65536. Three inputs let one wait, one be
  taken and one come in between. The proofs lift these bounds too.
- `adc`: windows of 4 and 8 readings for 512 and 4096, a ten-bit reading becomes
  0, 5 or 8; the sum needs more than a `WordMod`, as in the code. The compensations
  are those of the sources and custom ones a click beside.
- `thermostat`: one input, one switch command, a pass of one tick, so that
  the product of both components stays small; the components are explored further
  in their own runs.
- `http`: two clients, a ring of two frames, one loss of a segment or of an
  answer (`MaxLost`), one request sent again without need (`MaxEarly`), commands of each
  kind, among them two that change the filter. One loss and one interloper are each
  enough to tear a split POST apart, and one copy sent too early, or one tail beside
  another client's header, to run a command twice. The proofs lift these bounds.
- `frames`: two stations. Numbers of two bytes of two binary digits: sixteen
  requests have every sequence number once and every acknowledgement number once,
  and each follows any earlier answer; parts of 3 and 6 bytes, an odd and an even
  one. Carries from digit to digit, from byte to byte and past the largest number all
  occur, and sums whose carries make another carry. Echo requests of the size the
  code knows and of another, with data of 0 and of another word. `IdMod` 2 and one value for all bytes of a page: neither is
  read again.
- `display`: every value the setpoint takes from 5 to 60 degrees and the compensation
  from 4 to 25, all clicks up and down; only one of the two is adjusted in one
  behaviour (`knob`), as no arithmetic joins them. Published temperatures: zero, on either
  side of it, and the last float below 8, 10, 33 and 100 degrees, where a product
  would be rounded up to a whole one if it ever were. `Garbage` is a digit and a
  non-digit for the undefined conversion of temperatures from -0.1 degrees down.
  The proofs lift these bounds within 4 to 64 degrees.
- `enc28j60`: a ring of ten cells for 6692 bytes, frames of three and four of them: it
  fills, before `EPKTCNT` does, and the frames meet its end at every offset. One
  answer to each frame, where the code sends up to four; they differ in nothing here.
  `enc28j60_send` needs one frame at a time and has a ring of eight.
- `pages`: a cold, a comfortable and a warm room and a demand after one pass; all combinations
  of switches, sources, lights and filter, pressed by its owner and by another client. The lengths are the real ones.

Deadlock is checked in every run: the main loop never stops.

**Fairness.** Weak fairness of `ControlRelays`, `adc0_data`, `CheckRotary`, `Serve` and
`MainLoop` says that the main loop goes round for ever: it has no exit, and no call in
it blocks except on hardware that answers (the converter, SPI). Weak fairness of `Tick`
says that the timers run; `SteadyTick` is strongly fair because it waits for a bouncing
contact to come to rest, and `Bounce` gets it there. Both are facts about the hardware. Weak
fairness of `Driver` (`Enc28j60`) is the main loop again, and strong fairness of
`Transmit` says that a transmission which is not stopped ends, well or not; no frame is
ever bound to arrive. In `HttpServer` clients retransmit (weak fairness), which TCP
does, answers arrive or are lost (weak fairness of `Arrive`), and a segment that is sent again and again finds a free slot of the ring (strong
fairness of `Send`), which follows from the loop draining it at a slower network's pace.
No fairness is assumed of users: a liveness property that needs the user to stop says so
in its premise (`DemandServed`, `ColdRoomHeated`) or by a bound on inputs
(`WindowCloses`). `SteadyClickServed` depends on passes shorter than the wrap of
`TCNT0`; a pass that serves a page may be longer and is not part of that claim.

## 4. What is proved

TLAPS checks, for every value of the constants that the assumptions admit:

| Theorem | Property |
|---|---|
| `RelaysProofs!TypeCorrect`, `InterlockHolds`, `CountStaysBelowEnd`, `WrongWayIsBounded`, `StartsAreSpaced` | the type invariant, the four safety properties of `Relays` |
| `RelaysProofs!OneDemandAtATime`, `CountProgresses` | heating and cooling are never demanded together; the measure behind `DemandServed` |
| `RelaysProofs!PagesImplementRelays`, `PagesTypeCorrect` | `Pages` implements `Relays`; types |
| `RelaysProofs!PagesFit`, `StatusIsTrue`, `PressingShows` | `FitsFrame`, `StatusTrueInAuto`; the half of `ButtonsWork` without `ENABLED`: a live switch pressed by a client that passes the filter changes what is shown |
| `RotaryProofs!TypeCorrect`, `WindowIsNotMissed`, `ViewClosesInTime`, `OnePerInput` | the type invariant and the safety of the dial turned at any speed |
| `RotaryProofs!SteadyHandExact`, `SteadySetpointIsExact` | `SetpointExact` for a steady hand, alone and as the run checks it (`SteadySetpointExact`) |
| `ThermostatProofs!TypeCorrect`, `OffWithinOnePass` | types; a system switched off has its relays off within a pass |
| `ThermostatProofs!ImplementsDial`, `ImplementsRelays` | `DialPart`, `RelaysPart`: the main loop implements each of its components |
| `ThermostatProofs!RelaysSafeTogether` | `Interlock`, `WrongWayBounded`, `StartsSpaced` in the whole loop |
| `ThermostatProofs!DialSafeTogether` | `AtMostOnePerInput`, `WindowNotMissed`, `ClearOnlyWhenExpired` in the whole loop |
| `AdcProofs!TypeCorrect`, `SourceIsMatched` | types; the compensation is that of the source shown |
| `AdcProofs!KeepsPromise` | `Promise`: `Adc` implements `TempSensor` |
| `DisplayProofs!HeldForTenths`, `CompensationIsNear` | rounding errors do not add up; `CompensationNear` |
| `DisplayProofs!DigitsAreLegible`, `SetpointIsShown` | `Legible`, `ShowsSetpoint` |
| `HttpProofs!TypeCorrect`, `RunsOncePerLoss`, `AnswerMeansDone`, `OwnerOnly` | types and the safety of the web server |
| `ServerProofs!AnswersReachAsker`, `LengthsAlwaysAgree`, `ChecksumsVerify` | `AnswersGoToAsker`, `LengthsAgree`, `ChecksumVerifies` of every answer |
| `ServerProofs!PartsJoin`, `AcksAreRight` | `Contiguous`, `AcksFirstByte`: the numbers of every packet |
| `Enc28j60Proofs!TypeCorrect`, `BankIsKnown`, `RingIsConsistent` | types, `BankKnown`, `RingConsistent` |
| `Enc28j60Proofs!QueueSteps` | driver and controller implement `FrameQueue`, but for its fairness |

Every proof of an invariant has the same outline: `InductiveInvariant`
(`WindowInvariant` for the dial) says that `IInv` holds at the start and is kept by
each action, one lemma or step per action; the theorems follow from it.

*Relays.* Assumed: `0 < cnt0end < WordMod`, and that temperatures are integers.
`Interlock` and `TypeOK` are inductive with each other. `CountBelowEnd` is not
enough for the rest: `StartsSpaced` and `WrongWayBounded` need the relation between
the count and the two histories, `CountInv`: `relays_cnt0 < cnt0end`,
`relays_cnt0 <= h_since` and `h_wrong <= relays_cnt0`. The last is the reason why
one count can serve both demands: while relays work against the temperature,
each pass counts towards the other demand, and whatever clears the count ends the stretch,
because the demand is replaced or the relays are off. A demand kept through a time
switched off begins another stretch, with another count. `StartsSpaced` is about the pins,
so `CountInv` also says that unless a command has come since the last evaluation they are
just what switches and demands ask for (`Driven`); a pin is then raised only because a
demand is, and that takes a complete count, which `h_since` has seen in full.
`CountProgresses` is the safety half of `DemandServed`: each evaluation of a room too
cold or too warm serves it or takes the count one step on, and nothing but a complete
count or switching off sends it back. What remains for TLC is that the calls come.

*Pages.* Assumed: what `Relays` assumes. `PagesImplementRelays` shows that a press of a
button, as far as the relay controller goes, is one of its commands or nothing, so that
`Pages` inherits the invariants above. `StatusIsTrue` needs two of them: the type
invariant and `OneDemandAtATime`, without which the page would claim a cooling that
heating has displaced. `PagesFit` needs none: it is the arithmetic of the parts' lengths
over all settings. `PressingShows` says of each live switch that pressing it changes the
settings or the lights that are shown, if the filter lets the client pass; that a press is possible is `ENABLED` and stays with the run.

*Dial.* Assumed: the order of the times above. `WindowInv` follows `TCNT1` through
the labels of `check_rotary`: after a test it is at most `T1Window`, plus the
ticks since; at the next test at most another pass has gone by. Together with
`T1Window + 2 MaxLoop < T1Mod` the timer is read before it wraps. `OnePerInput` adds
up the inputs: a click still waiting is exactly one that has not been counted.
For the steady hand, `SteadyInv` says that while the contact may bounce after a click
that was flagged as it closed, `TCNT0` has counted the ticks since, so that
`TCNT0 > T0Debounce` implies a contact at rest in the phase that tells the direction. A
click that finds a release flagged (`h_stale`) has no such guard: it may be read while its
contact still bounces, and is then flagged once more; the proof charges the step too many
to the release, so the setpoint stays within one step for each. `SteadySetpointIsExact` carries
this to the specification in which either hand may hold the dial.

*Main loop.* Assumed: what both components assume, and that `Setpoints` has every
value the bounded number of clicks can reach (`Reach`), without which the composition
would take steps the relay controller does not know. That is why `IInv` contains
`SetpointInv`: the setpoint is some number of clicks from 20 degrees, and there have
been no more of them than inputs. `OffWithinPass` alone is not inductive: a system
that is off before the first average keeps its relays off because none is on yet
(`OffInv`), not because `control_relays` puts them out. `ImplementsDial` and
`ImplementsRelays` go through the actions once more: what the one component does is a
step of it, everything else leaves its variables alone. So what is proved of `Relays`
and `RotaryEncoder` by themselves holds in the loop: `RelaysSafeTogether` and
`DialSafeTogether` draw that conclusion, by citing the theorems of `RelaysProofs` and
`RotaryProofs` through instances of these modules.

*Temperature.* Assumed: windows of more than one reading that fit a word, readings
below the window length, sums that fit their variable. `SumInv` bounds the sum from
both sides by multiples of the extremes: `m * x` from above, and from below
`m * (x - adc0_valid)`, since the count of every window but the first may be one ahead
of the readings in it. At the end of a window that one reading is the step of the
converter that `TempSensor` allows. `KeepsPromise` needs no fairness and is the whole
refinement.

*Display.* Assumed: published temperatures are floats between -10 and 100 degrees, the
setpoint and the compensation stay between `Low` in 4..20 and `High` in 20..64 degrees.
A float is at most half a spacing beside its tenth, so adding and taking away 0.1 makes
an error at each click. `Held(v, k)` says where that leads: between two powers of two
each click adds the same amount (209715, 209716, 209716 or 209712 units), and the way
back takes it away again, so the offset of `v` from `k` such steps is one of a handful of
values, decided when a power of two is crossed. `Held` is inductive (`HeldForTenths`),
and the digits of every value it admits are those of `k` or of `k - 1`. `DigitsAreLegible`
is about all floats: the tenths digit could become ten only if ten times a value below a
whole degree were rounded up to it, and the value lies at least one spacing below, its
product ten, which is more than rounding moves.

*Web server.* Assumed: an address for each client, at least one slot in the ring; any
clients, also with one address, any commands, numbers of slots, of losses and of
requests sent too early. `QueueInv` lists what a client may have left to send. `RunsInv`
counts the segments on their way that hold the command (`ToRun`), copies and tails
included: what has run and what may still run is paid for by the click, the answers lost
and the requests sent too early, and as long as a client waits each run has its answer
under way or lost, so that sending again in time is paid for as well. `FreshInv` is about
a request that is not torn and has not been run: its client waits, no answer is on its
way, and the segment that will be served next is a whole POST, or a body with `post_data`
set for it, or a header that its body follows. So the first answer that it can get is the
one of its command. `OnlyOwner` is an action property that follows from the guards along
each way through `Serve`.

*Answers and numbers.* Assumed: stations with different IP addresses and ports other
than 80, an even number of bytes in a number, parts of a page that are not empty. `IInv`
joins three things. `AskerInv` keeps what the code will copy into the answer
(`client_mac`, `client_ip`, `dest_port`) in step with who asked, from the frame's
arrival to the last packet. `NumberInv` says for each packet still to be built where the
number in the header stands from the one expected: by the length in `prev_dlength0` or
`prev_dlength2`, which of them depending on the packet. The lemmas under it show that
the code's arithmetic is right for any number of bytes and any base: that its byte-wise
increment with carry adds one (`IncrementedValue`), that the digits written back by
repeated division are the digits of the sum, and that the weights, a recursive function,
are powers. For the checksums, the sum of the words with the carries folded back leaves
a remainder that the complement cancels, for an echo if the code and the receiver sum the
same bytes, that is if its total length is 60; the property holds of what is in the buffer,
field by field, after every answering action.

*Driver.* Assumed: a frame fits the ring and the buffer (`MaxFrame + 1 < RingLen`,
`MaxFrame - Crc <= MaxData`), a frame has data, at least one packet can be counted; any
ring and network within that. `BankKnown` is inductive by itself: `SetBank` keeps the
copy and the real bank in step whether it writes or returns early, the set-up is nine of
them in a row, and a restart sets both to 0. The reset of the controller is needed: a
program that restarted without it would begin with a copy of 0 and some other bank.
`RingConsistent` is not inductive, as it says nothing of the lengths. `RingInv` does:
measured from `ERXRDPT` (`Dist`), each header of the chain lies one header and one
length behind the one before, so the chain runs once round at most, and what is being
read ends before the next header. `Ring(m, p, r, w, k)` states it for any contents, so
that the lemmas `RingTaken`, `RingFreed`, `RingKept` and `RingGrows` are each one thing
that happens to a ring. For `QueueSteps` the queue is rewritten over such contents
(`Queued`): accepting a frame appends it and keeps all bytes in use, so what is in the
queue stays whole; reading a header moves the first from ring to hand and changes
nothing that can be seen; reading the data hands it over.

*Recursion.* The first section of `ServerProofs` is a small library. Recursive functions
of TLA+ are `CHOOSE`n, so that even their defining equation must be derived, and the
library theorems for it take operators as parameters. `RecursiveFunction` derives it for
functions over a set with a size; `NatInd`, also in `Enc28j60Proofs`, is induction over a
set in place of a predicate; the rest shows that `SumFunction` does not depend on the
order.

*Only model-checked*:

- what needs fairness: `DemandServed`, `SteadyClickServed`, `WindowCloses`,
  `KeepsPublishing`, `ColdRoomHeated`, `EveryRequestAnswered`, and the fairness in
  `Queue`. Liveness is out of the prover's reach;
- `ButtonsWork`, which says with `ENABLED` that each button can be pressed with effect.
  `PressingShows` covers the effect, for the switches of the settings page.

## 5. Findings

- `main.c:98` configures bits 0, 1, 7 and 8 of an eight-bit port as outputs. PC6,
  the cooling relay, never is one (`relay_outputs`).
- `rotaryencoder.c:44-46`: a click whose interrupt comes between the test of the
  window and the clearing of `rot_enc_change` is out of view until it is read, and
  the relays are let go (`rotary_view`).
- `enc28j60.c:285`: after one failed transmission `EIR.TXERIF` stays set, as no line
  clears it, and every later frame is cancelled just after it was started, until the
  program restarts (`enc28j60_send`).

Noted without a run of its own:

- `adc.c:55-70`: the call that publishes the first average falls through into the
  second test; the first long window has 4095 readings and is divided by 4096, where
  the report (p. 23) says 4096 (`TempSensor` allows for it);
- `http.c:688-710`: the status on the home page looks neither at the system switch
  nor at the relays; with the system off it can say that heating is on
  (`StatusTrueInAuto` states where it is true);
- `icmp.c:88-99`: an echo reply always has 74 bytes, and a checksum over 40 of them, but
  copies its total length from the request; requests of another size than 60, the 84 of
  many systems among them, get a reply that is cut off or padded and whose checksum does
  not verify (`OddEcho`);
- `rotaryencoder.c:13`: a release whose contact bounces is flagged as a click if none
  waits; the next click is then read without the wait and may count twice
  (`SetpointExact` allows one step for each such release);
- `relays.c:26-33`: switching off throws away the count but keeps the demands; switching
  the system, a component, the mode or the source off and on again restarts equipment at
  once (`StartsSpaced` exempts commands), also against a temperature that has turned
  meanwhile (`WrongWayBounded` bounds each such stretch, not their number);
- `http.c:100-219` and the pages: a client that the address filter refuses is offered the
  same live buttons as its owner, and they do nothing (`PressRefused`);
- three clicks down from 20.0 the display shows 19.6: a reading is never above what
  was asked for and at most a tenth below (`ShowsSetpoint`);
- the setpoint has no limits in the code; far enough down its digits are those of a
  negative number;
- the window of the view is 2.88 s, where the report (p. 23) says five seconds;
- the relays are not switched on at start-up (`relays.c:22` is a comment), where the
  report (p. 10) has their lights on;
- `tcp.c:120` writes `prev_seq_number[4]`, past its end; the array is never read;
- `tcp.c:113-123` acknowledges one byte of a request, whatever its length, so a
  client sends the rest again (`AcksFirstByte` states what the code does);
- commands toggle, so one that is sent again is undone; `OncePerLoss` bounds how often, by
  the answers lost and the requests sent again without need, among these the tails that an
  answer leaves unacknowledged;
- `post_data` is shared: a POST in two segments may be answered without having been run, if
  one of the segments is lost, if another client's command is served between them, or if
  `post_data` is still set by some other POST when the first is served;
  `AnsweredMeansDone` names these three cases and excludes no other;
- a power failure forgets the count, which starts at `cnt0end - 1`: the spacing of
  starts holds within one run of the program only.

## 6. Idealisations

Temperatures are integers, where the code compares floats; the edges of the band
are compared exactly. The relay pins are written together, where the code writes one bit
after the other: for less than a microsecond two of them may overlap (`relays.c:75-78`
raises the secondary heater before it lowers the others). `DemandServed` and
`ColdRoomHeated` speak of demands; whether a demand reaches a pin is for the switches to
say. The interrupt handler is one step with the edge that triggers
it, and a 16-bit access to `TCNT1` is one step. `rot_enc_flag` and `rot_enc_change`
are not `volatile`, but they are bytes in memory that each call of `check_rotary` or
`control_relays` reads afresh. The converter and the SPI bus are assumed
to answer. The display takes time only, which is part of a pass.

The Ethernet controller is modelled after its data sheet as far as the driver uses it:
frames are stored only in free space, with their header, and are counted last;
`ERXRDPT` takes effect when its high byte is written. The erratum on even values of
`ERXRDPT`, which the driver does not work around, is left out, and so is the time
between the start of a transmission and the moment its last byte has been read:
whether writing the next answer into the transmit area disturbs a deferred frame
depends on the speed of both. Rounding is to the nearest, a tie to the even float.

## 7. Not modelled, and the plan

Of the plan nothing is left that the provers can reach: each safety property the
passing runs check, but for `ButtonsWork`, has its theorem, and so has every refinement,
but for the fairness of `Queue`. What the proofs could still lift is the range of the
setpoint: below 4 and above 64 degrees `Held` would have more binades to follow.

Left out for good: `ee_avr_ip` and the set-up of ports and timers, which happen once;
the senders of requests `arp_who_is`, `arp_send_request`, `icmp_ping` and
`icmp_send_request`, the client flags of `flag1`, `clear_seqack`, `enc28j60_read_phyreg`
and `enc28j60getrev`, which nothing calls or sets; the look of the pages. The whole
program is not composed into one module: its state space is the product of parts
that meet in few variables, and `Thermostat`, `ServerProcess` and `Pages` each compose
the parts that meet. A power cycle is modelled in the driver only: the rest of the
program begins at `Init` with nothing kept.
