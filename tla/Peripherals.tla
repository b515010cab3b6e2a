----------------------------- MODULE Peripherals ------------------------------
\* The peripheral modules (systemio): Linux and TizenRT, and the GPIO of TizenRT.
EXTENDS Naturals, FiniteSets, Sequences

-----------------------------------------------------------------------------
(* The peripheral modules (systemio): GPIO, PWM, serial, ADC, I2C and SPI,  *)
(* on Linux and, GPIO excepted, on TizenRT.  Each keeps a list of the       *)
(* requested peripherals; behind it are file descriptors of the process,    *)
(* sysfs entries that are exported, and watches of descriptors in the event *)
(* loop.  The loop runs callbacks between the application's calls, in the   *)
(* same thread.                                                             *)

CONSTANTS
    PePins, PePorts, PeChannels, PeAdcs,  \* what can be requested
    PeChannelsRead,  \* the channels TizenRT reads at once (4 in the source)
    PeMaxFd,     \* bound: descriptors 0 .. PeMaxFd, 0 is the standard input
    PeFiles,     \* the files a PWM channel keeps open (4 in the source)
    PeUnusual,   \* what the application and the system do beyond the normal
    BsSlaves, BsSpis,  \* I2C slaves [id, address] and SPI configurations [bus, cs, mode, rate]
    BsRegs,      \* bound: a slave has the registers 0 .. BsRegs - 1
    BsTexts,     \* the bytes that are written
    BsUnusual    \* the same of I2C and SPI

(* The devices of TizenRT's ADCs are those of the channels it reads.        *)
ASSUME PeAssumption ==
    /\ PeMaxFd \in Nat /\ PeFiles \in 1 .. PeMaxFd
    /\ PeChannelsRead \in Nat /\ PeAdcs \subseteq 0 .. PeChannelsRead - 1

(* "watched"   a handle is released with its callback still set             *)
(* "twice"     a callback is set on a pin that has one                      *)
(* "unset"     the callback of a serial port is unset                       *)
(* "pwmfails"  a file of an exported PWM channel cannot be opened, or a     *)
(*             write that undoes a request or makes a release fails         *)
(* "adcfails"  the read of an ADC value fails                               *)
(* "short"     TizenRT's driver gives fewer samples than there are channels *)
(* "counts"    the application compares what an I2C call on TizenRT returns *)
(*             with S_OK                                                    *)
(* "words"     registers of 16 bits on TizenRT                              *)
(* "restarts"  TizenRT's driver addresses the slave again for a second      *)
(*             message                                                      *)
(* "buses"     two SPI buses are requested on TizenRT                       *)

PeNodes == ({"gpio"} \X PePins) \cup ({"serial"} \X PePorts) \cup ({"pwm"} \X PeChannels)
           \cup ({"adc"} \X PeAdcs)
PeFds == 0 .. PeMaxFd

PeNobody == <<"nobody", 0>>
PeStdin == <<"stdin", 0>>

VARIABLES
    pe_os,       \* the platform
    pe_fds,      \* the node each descriptor is open for, PeNobody when it is closed
    pe_nodes,    \* requested_node of the modules: what config->user_data holds
    pe_exported, \* pins and channels exported in sysfs
    pe_on,       \* PWM channels whose output is enabled
    pe_watches,  \* the loop's watches: [fd, node]
    pe_wrong     \* another's descriptor or value, or freed data, was used

pevars == <<pe_os, pe_fds, pe_nodes, pe_exported, pe_on, pe_watches, pe_wrong>>

PeData == [fd : PeFds, files : SUBSET PeFds, watch : BOOLEAN]

PeTypeOK ==
    /\ pe_os \in {"linux", "tizenrt"}
    /\ pe_fds \in [PeFds -> PeNodes \cup {PeStdin, PeNobody}]
    /\ DOMAIN pe_nodes \subseteq PeNodes
    /\ \A n \in DOMAIN pe_nodes : pe_nodes[n] \in PeData
    /\ pe_exported \subseteq PeNodes /\ pe_on \subseteq PeNodes
    /\ pe_watches \subseteq [fd : PeFds, node : PeNodes]
    /\ pe_wrong \in BOOLEAN

PeInit ==
    /\ pe_os \in {"linux", "tizenrt"}
    /\ pe_fds = [f \in PeFds |-> IF f = 0 THEN PeStdin ELSE PeNobody]
    /\ pe_nodes = [n \in {} |-> 0]
    /\ pe_exported = {} /\ pe_on = {} /\ pe_watches = {} /\ pe_wrong = FALSE

PeKind(n) == n[1]
PeLinux(n, kind) == n[1] = kind /\ pe_os = "linux"
PeTizenRt(n, kind) == n[1] = kind /\ pe_os = "tizenrt"
PeListed(n) == n \in DOMAIN pe_nodes

(* The lists: a peripheral is requested once, and its data goes with it.    *)
PeAdd(n, data) ==
    pe_nodes' = [m \in DOMAIN pe_nodes \cup {n} |-> IF m = n THEN data ELSE pe_nodes[m]]
PeDelete(n) == pe_nodes' = [m \in DOMAIN pe_nodes \ {n} |-> pe_nodes[m]]

PeNoData == [fd |-> 0, files |-> {}, watch |-> FALSE]

(* The descriptors k calls of open get: the lowest free ones.               *)
PeFree == {f \in PeFds : pe_fds[f] = PeNobody}
PeLowest(k) ==
    CHOOSE fds \in SUBSET PeFree :
        Cardinality(fds) = k /\ \A f \in fds, g \in PeFree \ fds : f < g
PeCanOpen(k) == Cardinality(PeFree) >= k
PeOpened(fds, n) == [f \in PeFds |-> IF f \in fds THEN n ELSE pe_fds[f]]
PeClosed(fds) == PeOpened(fds, PeNobody)

(* Does n use a descriptor that is open for another?                        *)
PeForeign(f, n) == pe_fds[f] \notin {n, PeNobody}

-----------------------------------------------------------------------------
(* GPIO.                                                                    *)

(* A request that cannot set the pin up unexports it again.                 *)
GpioRequest(n) ==
    /\ PeLinux(n, "gpio") /\ ~PeListed(n)
    /\ \E ok \in BOOLEAN :
         IF ok /\ n \notin pe_exported
         THEN pe_exported' = pe_exported \cup {n} /\ PeAdd(n, PeNoData)
         ELSE pe_exported' = pe_exported \ {n} /\ UNCHANGED pe_nodes
    /\ UNCHANGED <<pe_fds, pe_on, pe_watches, pe_wrong>>

PeMayRelease(n) == PeListed(n) /\ ("watched" \in PeUnusual \/ ~pe_nodes[n].watch)

(* Neither the descriptor nor the watch of a change callback is looked at.  *)
GpioRelease(n) ==
    /\ PeLinux(n, "gpio") /\ PeMayRelease(n)
    /\ pe_exported' = pe_exported \ {n} /\ PeDelete(n)
    /\ UNCHANGED <<pe_fds, pe_on, pe_watches, pe_wrong>>

PeMaySet(n) == PeListed(n) /\ ("twice" \in PeUnusual \/ ~pe_nodes[n].watch)

(* Descriptor 0 is taken for a failure of open, and stays open.             *)
SetChangeCallback(n) ==
    /\ PeLinux(n, "gpio") /\ PeMaySet(n) /\ PeCanOpen(1)
    /\ \E f \in PeLowest(1), ok \in BOOLEAN :
         LET set == ok /\ f # 0 IN
         /\ pe_fds' = IF set \/ f = 0 THEN PeOpened({f}, n) ELSE pe_fds
         /\ PeAdd(n, [fd |-> IF set THEN f ELSE 0, files |-> {}, watch |-> set])
         /\ pe_watches' = IF set THEN pe_watches \cup {[fd |-> f, node |-> n]} ELSE pe_watches
    /\ UNCHANGED <<pe_exported, pe_on, pe_wrong>>

(* Unset as if the data were left as it was.                                *)
MutUnsetCallback(n) ==
    LET f == pe_nodes[n].fd IN
    /\ PeLinux(n, "gpio") /\ PeListed(n)
    /\ pe_watches' = IF pe_nodes[n].watch THEN pe_watches \ {[fd |-> f, node |-> n]} ELSE pe_watches
    /\ pe_fds' = IF f = 0 THEN pe_fds ELSE PeClosed({f})
    /\ pe_wrong' = (pe_wrong \/ (f # 0 /\ PeForeign(f, n)))
    /\ PeAdd(n, [pe_nodes[n] EXCEPT !.watch = FALSE])
    /\ UNCHANGED <<pe_exported, pe_on>>

(* A port's data is cleared in the same way, and its descriptor left open.  *)
SerialUnset(n) == PeLinux(n, "serial") /\ "unset" \in PeUnusual

(* Unset removes the watch and clears the whole data: descriptor 0 means no *)
(* descriptor to a pin, and the standard input to a serial port.            *)
UnsetCallback(n) ==
    LET f == pe_nodes[n].fd IN
    /\ PeLinux(n, "gpio") \/ SerialUnset(n)
    /\ PeListed(n)
    /\ IF f = 0 THEN UNCHANGED <<pe_fds, pe_nodes, pe_watches, pe_wrong>>
       ELSE /\ pe_watches' = IF pe_nodes[n].watch
                             THEN pe_watches \ {[fd |-> f, node |-> n]} ELSE pe_watches
            /\ pe_fds' = IF PeKind(n) = "gpio" THEN PeClosed({f}) ELSE pe_fds
            /\ pe_wrong' = (pe_wrong \/ (PeKind(n) = "gpio" /\ PeForeign(f, n)))
            /\ PeAdd(n, PeNoData)
    /\ UNCHANGED <<pe_exported, pe_on>>

(* The loop calls back for a watch: what is read is the descriptor of the   *)
(* data.  A callback whose read fails is not called again.                  *)
PeCalledBack(w) ==
    /\ pe_wrong' = (pe_wrong \/ ~PeListed(w.node) \/ pe_fds[pe_nodes[w.node].fd] # w.node)
    /\ \E ok \in BOOLEAN : pe_watches' = IF ok THEN pe_watches ELSE pe_watches \ {w}
    /\ UNCHANGED <<pe_fds, pe_nodes, pe_exported, pe_on>>

GpioChangeCallback(w) == w \in pe_watches /\ PeKind(w.node) = "gpio" /\ PeCalledBack(w)

-----------------------------------------------------------------------------
(* Serial ports.  A request that fails releases what it had.                *)

SerialOpens(n) ==
    /\ ~PeListed(n) /\ PeCanOpen(1)
    /\ \E f \in PeLowest(1), ok \in BOOLEAN :
         IF ok
         THEN /\ pe_fds' = PeOpened({f}, n)
              /\ PeAdd(n, [fd |-> f, files |-> {}, watch |-> FALSE])
         ELSE UNCHANGED <<pe_fds, pe_nodes>>
    /\ UNCHANGED <<pe_exported, pe_on, pe_watches, pe_wrong>>

SerialCloses(n) ==
    /\ PeMayRelease(n)
    /\ pe_fds' = PeClosed({pe_nodes[n].fd})
    /\ pe_wrong' = (pe_wrong \/ PeForeign(pe_nodes[n].fd, n))
    /\ PeDelete(n)
    /\ UNCHANGED <<pe_exported, pe_on, pe_watches>>

(* read and write: of whatever the descriptor is.                           *)
PeUses(n) ==
    /\ PeListed(n)
    /\ pe_wrong' = (pe_wrong \/ pe_fds[pe_nodes[n].fd] # n)
    /\ UNCHANGED <<pe_fds, pe_nodes, pe_exported, pe_watches>>

SerialRequest(n)  == PeLinux(n, "serial") /\ SerialOpens(n)
SerialRelease(n)  == PeLinux(n, "serial") /\ SerialCloses(n)
SerialTransfer(n) == PeLinux(n, "serial") /\ PeUses(n) /\ UNCHANGED pe_on

RtSerialRequest(n)  == PeTizenRt(n, "serial") /\ SerialOpens(n)
RtSerialRelease(n)  == PeTizenRt(n, "serial") /\ SerialCloses(n)
RtSerialTransfer(n) == PeTizenRt(n, "serial") /\ PeUses(n) /\ UNCHANGED pe_on

SetReceivedCallback(n) ==
    /\ PeLinux(n, "serial") /\ PeMaySet(n)
    /\ \E ok \in BOOLEAN :
         /\ PeAdd(n, [pe_nodes[n] EXCEPT !.watch = ok])
         /\ pe_watches' = IF ok THEN pe_watches \cup {[fd |-> pe_nodes[n].fd, node |-> n]}
                          ELSE pe_watches
    /\ UNCHANGED <<pe_fds, pe_exported, pe_on, pe_wrong>>

SerialChangeCallback(w) == w \in pe_watches /\ PeKind(w.node) = "serial" /\ PeCalledBack(w)

-----------------------------------------------------------------------------
(* PWM.                                                                     *)

(* The file of the export is written, and closed again; a channel that is   *)
(* exported is refused.                                                     *)
PwmExports(n) == n \notin pe_exported

PwmFiles == PeLowest(PeFiles)

(* os_pwm_init fails to open the k-th file: those before stay open, and the *)
(* channel stays exported.                                                  *)
PwmInitFails(n) ==
    \E k \in 0 .. PeFiles - 1 :
        /\ PeCanOpen(k) /\ pe_fds' = PeOpened(PeLowest(k), n)
        /\ pe_exported' = pe_exported \cup {n}

(* A setting is refused: os_pwm_release undoes the request, or gives up.    *)
PwmUndone(n) ==
    \E undone \in BOOLEAN :
        /\ ~undone => "pwmfails" \in PeUnusual
        /\ pe_fds' = IF undone THEN pe_fds ELSE PeOpened(PwmFiles, n)
        /\ pe_exported' = IF undone THEN pe_exported ELSE pe_exported \cup {n}

PwmRequest(n) ==
    /\ PeLinux(n, "pwm") /\ ~PeListed(n) /\ PeCanOpen(PeFiles)
    /\ \E outcome \in {"ok", "busy", "refused", "unopened"} :
         /\ ~ PwmExports(n) => outcome = "busy"
         /\ outcome = "unopened" => "pwmfails" \in PeUnusual
         /\ IF outcome = "ok"
            THEN /\ pe_fds' = PeOpened(PwmFiles, n)
                 /\ pe_exported' = pe_exported \cup {n} /\ pe_on' = pe_on \cup {n}
                 /\ PeAdd(n, [fd |-> 0, files |-> PwmFiles, watch |-> FALSE])
            ELSE /\ UNCHANGED <<pe_nodes, pe_on>>
                 /\ IF outcome = "busy" THEN UNCHANGED <<pe_fds, pe_exported>>
                    ELSE IF outcome = "unopened" THEN PwmInitFails(n) ELSE PwmUndone(n)
    /\ UNCHANGED <<pe_watches, pe_wrong>>

PwmEnable(n, on) ==
    /\ PeLinux(n, "pwm") /\ PeListed(n)
    /\ pe_on' = IF on THEN pe_on \cup {n} ELSE pe_on \ {n}
    /\ UNCHANGED <<pe_fds, pe_nodes, pe_exported, pe_watches, pe_wrong>>

(* Period, polarity or duty cycle: the output is disabled, set, and enabled *)
(* again; the first failure ends it.                                        *)
PwmSet(n) ==
    /\ PeLinux(n, "pwm") /\ PeListed(n)
    /\ pe_on' \in {pe_on, pe_on \ {n}, pe_on \cup {n}}
    /\ UNCHANGED <<pe_fds, pe_nodes, pe_exported, pe_watches, pe_wrong>>

PwmClean(n) == PeClosed(pe_nodes[n].files)

(* A release that fails keeps the handle.                                   *)
PwmRelease(n) ==
    /\ PeLinux(n, "pwm") /\ PeListed(n)
    /\ \E ok \in BOOLEAN :
         IF ok
         THEN /\ pe_on' = pe_on \ {n} /\ pe_exported' = pe_exported \ {n}
              /\ pe_fds' = PwmClean(n) /\ PeDelete(n)
         ELSE /\ pe_on' \in {pe_on, pe_on \ {n}, pe_on \cup {n}}
              /\ UNCHANGED <<pe_fds, pe_nodes, pe_exported>>
    /\ UNCHANGED <<pe_watches, pe_wrong>>

(* TizenRT: the device's descriptor is the data.                            *)
RtPwmRequest(n) == PeTizenRt(n, "pwm") /\ SerialOpens(n)

(* The output is stopped, and the descriptor closed in any case: a handle   *)
(* whose output could not be stopped is kept, with descriptor 0.            *)
RtPwmRelease(n) ==
    /\ PeTizenRt(n, "pwm") /\ PeListed(n)
    /\ \E ok \in BOOLEAN :
         /\ ~ok => "pwmfails" \in PeUnusual
         /\ pe_on' = IF ok THEN pe_on \ {n} ELSE pe_on
         /\ IF ok THEN PeDelete(n) ELSE PeAdd(n, PeNoData)
    /\ pe_fds' = PeClosed({pe_nodes[n].fd})
    /\ pe_wrong' = (pe_wrong \/ PeForeign(pe_nodes[n].fd, n))
    /\ UNCHANGED <<pe_exported, pe_watches>>

RtPwmEnable(n, on) ==
    /\ PeTizenRt(n, "pwm") /\ PeUses(n)
    /\ pe_on' \in {pe_on, IF on THEN pe_on \cup {n} ELSE pe_on \ {n}}

(* Period or duty cycle: the characteristics are read, and set with one of  *)
(* them changed; the output goes on.                                        *)
RtPwmSet(n) == PeTizenRt(n, "pwm") /\ PeUses(n) /\ UNCHANGED pe_on

-----------------------------------------------------------------------------
(* An ADC's device is opened for each reading.                              *)

(* os_adc_open: descriptor 0 is taken for a failure.                        *)
AdcOpenFails == PeLowest(1) = {0}

(* os_adc_get_value: a descriptor whose read fails, or which is 0, is left. *)
AdcReads(n, ok) ==
    /\ PeCanOpen(1)
    /\ ~ok => "adcfails" \in PeUnusual
    /\ pe_fds' = IF ok /\ ~ AdcOpenFails THEN pe_fds ELSE PeOpened(PeLowest(1), n)

AdcRequest(n) ==
    /\ PeLinux(n, "adc") /\ ~PeListed(n)
    /\ \E ok \in BOOLEAN :
         /\ AdcReads(n, ok)
         /\ IF pe_fds' = pe_fds THEN PeAdd(n, PeNoData) ELSE UNCHANGED pe_nodes
    /\ UNCHANGED <<pe_exported, pe_on, pe_watches, pe_wrong>>

AdcGetValue(n) ==
    /\ PeLinux(n, "adc") /\ PeListed(n)
    /\ \E ok \in BOOLEAN : AdcReads(n, ok)
    /\ UNCHANGED <<pe_nodes, pe_exported, pe_on, pe_watches, pe_wrong>>

AdcRelease(n) ==
    /\ PeLinux(n, "adc") /\ PeListed(n)
    /\ PeDelete(n)
    /\ UNCHANGED <<pe_fds, pe_exported, pe_on, pe_watches, pe_wrong>>

(* TizenRT: the device is opened to see whether it is there, and closed.    *)
RtAdcRequest(n) ==
    /\ PeTizenRt(n, "adc") /\ ~PeListed(n) /\ PeCanOpen(1)
    /\ PeAdd(n, PeNoData)
    /\ UNCHANGED <<pe_fds, pe_exported, pe_on, pe_watches, pe_wrong>>

RtAdcRelease(n) ==
    /\ PeTizenRt(n, "adc") /\ PeListed(n)
    /\ PeDelete(n)
    /\ UNCHANGED <<pe_fds, pe_exported, pe_on, pe_watches, pe_wrong>>

(* The driver gives one sample a channel, and the one at the pin's place is *)
(* taken, of however many came.  A trigger that fails is not noticed.       *)
RtAdcGetValue(n) ==
    /\ PeTizenRt(n, "adc") /\ PeListed(n) /\ PeCanOpen(1)
    /\ \E samples \in 0 .. PeChannelsRead :
         /\ samples # PeChannelsRead => "short" \in PeUnusual
         /\ pe_wrong' = (pe_wrong \/ n[2] >= samples)
    /\ UNCHANGED <<pe_fds, pe_nodes, pe_exported, pe_on, pe_watches>>

LinuxPeNext(n) ==
    \/ GpioRequest(n) \/ GpioRelease(n) \/ SetChangeCallback(n) \/ UnsetCallback(n)
    \/ SerialRequest(n) \/ SerialRelease(n) \/ SerialTransfer(n) \/ SetReceivedCallback(n)
    \/ PwmRequest(n) \/ PwmSet(n) \/ PwmRelease(n)
    \/ \E on \in BOOLEAN : PwmEnable(n, on)
    \/ AdcRequest(n) \/ AdcGetValue(n) \/ AdcRelease(n)

RtPeNext(n) ==
    \/ RtSerialRequest(n) \/ RtSerialRelease(n) \/ RtSerialTransfer(n)
    \/ RtPwmRequest(n) \/ RtPwmRelease(n) \/ RtPwmSet(n)
    \/ \E on \in BOOLEAN : RtPwmEnable(n, on)
    \/ RtAdcRequest(n) \/ RtAdcRelease(n) \/ RtAdcGetValue(n)

PeNext ==
    /\ UNCHANGED pe_os
    /\ \/ \E n \in PeNodes : LinuxPeNext(n) \/ RtPeNext(n)
       \/ \E w \in pe_watches : GpioChangeCallback(w) \/ SerialChangeCallback(w)

-----------------------------------------------------------------------------
PeHolds(n) == pe_nodes[n].files \cup (IF pe_nodes[n].fd = 0 THEN {} ELSE {pe_nodes[n].fd})

(* However requests, failures, callbacks and releases of the peripherals    *)
(* follow each other, a descriptor is open exactly while the handle it was  *)
(* opened for holds it, the standard input is left alone, the loop watches  *)
(* only descriptors of handles that exist, nobody used another's            *)
(* descriptor, and exactly the requested pins and channels are exported: no *)
(* peripheral is lost to later requests, and no output stays enabled.       *)
HandlesOwnFiles ==
    /\ PeTypeOK /\ ~pe_wrong
    /\ \A f \in PeFds \ {0}, n \in PeNodes :
         pe_fds[f] = n <=> PeListed(n) /\ f \in PeHolds(n)
    /\ pe_fds[0] = PeStdin
    /\ \A w \in pe_watches : PeListed(w.node) /\ pe_nodes[w.node].watch /\ pe_nodes[w.node].fd = w.fd
    /\ pe_exported = {n \in DOMAIN pe_nodes : pe_os = "linux" /\ PeKind(n) \in {"gpio", "pwm"}}
    /\ pe_on \subseteq DOMAIN pe_nodes
-----------------------------------------------------------------------------
(* I2C and SPI, on both platforms.  A slave of I2C is an external device    *)
(* with registers: the first bytes of a message that is written to it say   *)
(* which, and the register counts on with every byte.                       *)

VARIABLES
    bs_i2c,      \* the requested slaves: the wordsize of each
    bs_slave,    \* what each slave is: the register it is at, and all of them
    bs_meant,    \* what the application's calls that succeeded made of it
    bs_spi,      \* the requested SPI configurations
    bs_sdev,     \* TizenRT: sdev, the bus of all handles, 0 when there is none
    bs_setup,    \* the mode and rate the driver has for each device [bus, cs]
    bs_last      \* the last call: whether it was done, what it returned and used

bsvars == <<bs_i2c, bs_slave, bs_meant, bs_spi, bs_sdev, bs_setup, bs_last>>

(* The number of a register fits into a byte, that of a bus is not zero.    *)
ASSUME BsAssumption ==
    /\ BsRegs \in 1 .. 256
    /\ BsTexts \subseteq Seq(Nat)
    /\ \A c \in BsSpis : c.bus \in Nat \ {0}

BsReg == 0 .. BsRegs - 1
BsGarbage == 99
BsDevice(c) == [bus |-> c.bus, cs |-> c.cs]
BsDevices == {BsDevice(c) : c \in BsSpis}
BsNothing == [done |-> TRUE, ret |-> "S_OK", right |-> TRUE]

BsInit ==
    /\ bs_i2c = [s \in {} |-> 0]
    /\ bs_slave = [s \in BsSlaves |-> [at |-> 0, regs |-> [r \in BsReg |-> 0]]]
    /\ bs_meant = bs_slave
    /\ bs_spi = {} /\ bs_sdev = 0
    /\ bs_setup = [d \in BsDevices |-> [mode |-> 0, rate |-> 0]]
    /\ bs_last = BsNothing

(* What a register's write and a read from it mean.                         *)
Stored(slave, reg, text) ==
    [at |-> (reg + Len(text)) % BsRegs,
     regs |-> [r \in BsReg |-> LET k == (r + BsRegs - reg) % BsRegs IN
                               IF k < Len(text) THEN text[k + 1] ELSE slave.regs[r]]]
BsHeld(slave, reg, len) == [k \in 1 .. len |-> slave.regs[(reg + k - 1) % BsRegs]]
Counted(slave, len) == [slave EXCEPT !.at = (@ + len) % BsRegs]

(* A slave takes a message: the number of a register is in the first bytes, *)
(* the low one first.  It gives as many bytes as it is read.                *)
BsTakes(slave, wordsize, bytes) ==
    LET reg == (bytes[1] + IF wordsize > 1 THEN 256 * bytes[2] ELSE 0) % BsRegs IN
    IF Len(bytes) < wordsize THEN slave
    ELSE Stored(slave, reg, SubSeq(bytes, wordsize + 1, Len(bytes)))
Gives(slave, len) == BsHeld(slave, slave.at, len)

(* The bytes of reg in memory, and those of a text, and behind it.          *)
RegBytes(reg, wordsize) == SubSeq(<<reg % 256, reg \div 256, 0>>, 1, wordsize)
BsSent(text, len) == [k \in 1 .. len |-> IF k <= Len(text) THEN text[k] ELSE BsGarbage]

(* One handle for a slave of a bus.  Linux addresses the slave once.        *)
I2cList(s, wordsize) ==
    /\ s \notin DOMAIN bs_i2c
    /\ bs_i2c' = [t \in DOMAIN bs_i2c \cup {s} |-> IF t = s THEN wordsize ELSE bs_i2c[t]]
    /\ bs_last' = BsNothing
    /\ UNCHANGED <<bs_slave, bs_meant, bs_spi, bs_sdev, bs_setup>>
os_i2c_request(s, wordsize) == pe_os = "linux" /\ I2cList(s, wordsize)
rt_i2c_request(s, wordsize) ==
    pe_os = "tizenrt" /\ (wordsize = 1 \/ "words" \in BsUnusual) /\ I2cList(s, wordsize)

I2cRelease(s) ==
    /\ s \in DOMAIN bs_i2c
    /\ bs_i2c' = [t \in DOMAIN bs_i2c \ {s} |-> bs_i2c[t]]
    /\ bs_last' = BsNothing
    /\ UNCHANGED <<bs_slave, bs_meant, bs_spi, bs_sdev, bs_setup>>

(* A call: what it makes of the slave and what it means, what it returns,   *)
(* and whether what it gave the application is right; or one that failed    *)
(* before it reached the slave.                                             *)
I2cCall(s, may, slave, meant, ret, right) ==
    /\ \E ok \in {may, FALSE} :
         /\ bs_slave' = IF ok THEN [bs_slave EXCEPT ![s] = slave] ELSE bs_slave
         /\ bs_meant' = IF ok THEN [bs_meant EXCEPT ![s] = meant] ELSE bs_meant
         /\ bs_last' = IF ok THEN [done |-> TRUE, ret |-> ret, right |-> right]
                       ELSE [done |-> FALSE, ret |-> "E_ACCESS_DENIED", right |-> TRUE]
    /\ UNCHANGED <<bs_i2c, bs_spi, bs_sdev, bs_setup>>

(* Linux refuses every call of a handle whose wordsize is none.             *)
LinuxCall(s, slave, meant, right) == I2cCall(s, bs_i2c[s] \in {1, 2}, slave, meant, "S_OK", right)
RtCall(s, slave, meant, ret, right) == I2cCall(s, TRUE, slave, meant, ret, right)

(* Without a register: the application writes its number first.             *)
Plainly(s, reg, text) == BsTakes(bs_slave[s], bs_i2c[s], RegBytes(reg, bs_i2c[s]) \o text)
os_i2c_read(s, len) ==
    LinuxCall(s, Counted(bs_slave[s], len), Counted(bs_meant[s], len),
              Gives(bs_slave[s], len) = Gives(bs_meant[s], len))
os_i2c_write(s, reg, text) == LinuxCall(s, Plainly(s, reg, text), Stored(bs_meant[s], reg, text), TRUE)

(* TizenRT returns what read and write returned, a count.                   *)
RtResult == IF "counts" \in BsUnusual THEN "count" ELSE "S_OK"
rt_i2c_read(s, len) ==
    RtCall(s, Counted(bs_slave[s], len), Counted(bs_meant[s], len), RtResult,
            Gives(bs_slave[s], len) = Gives(bs_meant[s], len))
rt_i2c_write(s, reg, text) ==
    RtCall(s, Plainly(s, reg, text), Stored(bs_meant[s], reg, text), RtResult, TRUE)

(* The answer is read from where the slave is.                              *)
MutAnswer(slave, wordsize, reg, len) == [slave |-> Counted(slave, len), got |-> Gives(slave, len)]

(* Two messages: the number of the register, then the answer.               *)
Answer(slave, wordsize, reg, len) ==
    LET at == BsTakes(slave, wordsize, RegBytes(reg, wordsize)) IN
    [slave |-> Counted(at, len), got |-> Gives(at, len)]

Meaning(s, reg, len) == Counted([bs_meant[s] EXCEPT !.at = reg], len)

os_i2c_read_register(s, reg, len) ==
    LET read == Answer(bs_slave[s], bs_i2c[s], reg, len) IN
    LinuxCall(s, read.slave, Meaning(s, reg, len), read.got = BsHeld(bs_meant[s], reg, len))

(* One message of both.                                                     *)
os_i2c_write_register(s, reg, text) ==
    LinuxCall(s, BsTakes(bs_slave[s], bs_i2c[s], RegBytes(reg, bs_i2c[s]) \o text),
              Stored(bs_meant[s], reg, text), TRUE)

(* TizenRT counts the length in words: more than the application has room   *)
(* for, or gave.                                                            *)
rt_i2c_read_register(s, reg, len) ==
    LET read == Answer(bs_slave[s], bs_i2c[s], reg, len * bs_i2c[s]) IN
    RtCall(s, read.slave, Meaning(s, reg, len), "S_OK", read.got = BsHeld(bs_meant[s], reg, len))

(* Two messages that are both written; the driver, external, runs them      *)
(* together, or starts again with the second.                               *)
rt_i2c_write_register(s, reg, text) ==
    LET w == bs_i2c[s]
        data == BsSent(text, Len(text) * w)
        number == RegBytes(reg, w)
    IN  RtCall(s, IF "restarts" \in BsUnusual
                   THEN BsTakes(BsTakes(bs_slave[s], w, number), w, data)
                   ELSE BsTakes(bs_slave[s], w, number \o data),
                Stored(bs_meant[s], reg, text), "S_OK", TRUE)

I2cNext(s) ==
    \/ \E wordsize \in {1, 2, 3} : os_i2c_request(s, wordsize) \/ rt_i2c_request(s, wordsize)
    \/ I2cRelease(s)
    \/ /\ s \in DOMAIN bs_i2c /\ pe_os = "linux"
       /\ \/ \E len \in 1 .. BsRegs : os_i2c_read(s, len) \/ \E reg \in BsReg : os_i2c_read_register(s, reg, len)
          \/ \E reg \in BsReg, text \in BsTexts : os_i2c_write(s, reg, text) \/ os_i2c_write_register(s, reg, text)
    \/ /\ s \in DOMAIN bs_i2c /\ pe_os = "tizenrt"
       /\ \/ \E len \in 1 .. BsRegs : rt_i2c_read(s, len) \/ \E reg \in BsReg : rt_i2c_read_register(s, reg, len)
          \/ \E reg \in BsReg, text \in BsTexts : rt_i2c_write(s, reg, text) \/ rt_i2c_write_register(s, reg, text)

-----------------------------------------------------------------------------
(* SPI: one handle for a bus, whatever the chip select.                     *)

SpiFree(c) == \A d \in bs_spi : d.bus # c.bus
Setup(c) == [mode |-> c.mode, rate |-> c.rate]
SpiReturns(done, ret, right) ==
    /\ bs_last' = [done |-> done, ret |-> ret, right |-> right]
    /\ UNCHANGED <<bs_i2c, bs_slave, bs_meant>>

(* spi_setup: mode, bits and speed one after the other; the first that is   *)
(* refused ends it.                                                         *)
SpiSetups(c) ==
    LET d == BsDevice(c) IN
    {bs_setup, [bs_setup EXCEPT ![d].mode = c.mode], [bs_setup EXCEPT ![d] = Setup(c)]}

os_spi_request(c) ==
    /\ pe_os = "linux" /\ SpiFree(c)
    /\ bs_setup' \in SpiSetups(c)
    /\ \E ok \in BOOLEAN :
         /\ ok => bs_setup'[BsDevice(c)] = Setup(c)
         /\ bs_spi' = IF ok THEN bs_spi \cup {c} ELSE bs_spi
         /\ SpiReturns(ok, IF ok THEN "S_OK" ELSE "E_ACCESS_DENIED", TRUE)
    /\ UNCHANGED bs_sdev

os_spi_release(c) ==
    /\ pe_os = "linux" /\ bs_spi' = bs_spi \ {c}
    /\ SpiReturns(TRUE, "S_OK", TRUE) /\ UNCHANGED <<bs_sdev, bs_setup>>

(* The driver's own settings are read with; a message brings its rate.      *)
LinuxTransfers(right) ==
    /\ pe_os = "linux"
    /\ SpiReturns(TRUE, "S_OK", right) \/ SpiReturns(FALSE, "E_ACCESS_DENIED", TRUE)
    /\ UNCHANGED <<bs_spi, bs_sdev, bs_setup>>
os_spi_read(c)       == LinuxTransfers(bs_setup[BsDevice(c)] = Setup(c))
os_spi_write(c)      == LinuxTransfers(bs_setup[BsDevice(c)].mode = c.mode)
os_spi_read_write(c) == LinuxTransfers(bs_setup[BsDevice(c)].mode = c.mode)

(* TizenRT: the bus is set up, and is the one of all handles.               *)
rt_spi_request(c) ==
    /\ pe_os = "tizenrt" /\ SpiFree(c) /\ (bs_spi = {} \/ "buses" \in BsUnusual)
    /\ bs_spi' = bs_spi \cup {c} /\ bs_sdev' = c.bus
    /\ SpiReturns(TRUE, "S_OK", TRUE) /\ UNCHANGED bs_setup

rt_spi_release(c) ==
    /\ pe_os = "tizenrt"
    /\ IF bs_sdev = 0 THEN SpiReturns(FALSE, "E_NOT_INITIALIZED", TRUE) /\ UNCHANGED <<bs_spi, bs_sdev>>
       ELSE SpiReturns(TRUE, "S_OK", TRUE) /\ bs_spi' = bs_spi \ {c} /\ bs_sdev' = 0
    /\ UNCHANGED bs_setup

(* The settings are made anew for each transfer, in the bus sdev is.        *)
SpiTransfers(c) ==
    /\ pe_os = "tizenrt"
    /\ IF bs_sdev = 0 THEN SpiReturns(FALSE, "E_NOT_INITIALIZED", TRUE)
       ELSE SpiReturns(TRUE, "S_OK", bs_sdev = c.bus)
    /\ UNCHANGED <<bs_spi, bs_sdev, bs_setup>>
rt_spi_read(c) == SpiTransfers(c)
rt_spi_write(c) == SpiTransfers(c)
rt_spi_read_write(c) == SpiTransfers(c)

SpiNext ==
    \/ \E c \in BsSpis : os_spi_request(c) \/ rt_spi_request(c)
    \/ \E c \in bs_spi : os_spi_release(c) \/ os_spi_read(c) \/ os_spi_write(c) \/ os_spi_read_write(c)
                         \/ rt_spi_release(c) \/ rt_spi_read(c) \/ rt_spi_write(c) \/ rt_spi_read_write(c)

BsNext == SpiNext \/ \E s \in BsSlaves : I2cNext(s)

(* However calls of I2C and SPI follow each other, and fail, a slave has in *)
(* its registers what was written to them, a read gives the application     *)
(* those and no more, a transfer goes to the bus of its handle with its     *)
(* settings, success is returned exactly for what was done, and every       *)
(* handle of SPI can be used and released.                                  *)
TransfersAreExact ==
    /\ bs_slave = bs_meant
    /\ bs_last.right /\ (bs_last.done <=> bs_last.ret = "S_OK")
    /\ pe_os = "tizenrt" => (bs_spi # {} <=> bs_sdev # 0)
    /\ \A c, d \in bs_spi : c.bus = d.bus => c = d

-----------------------------------------------------------------------------
(* GPIO on TizenRT (systemio/gpio/tizenrt_gpio.c): a change callback has a  *)
(* thread that polls the pin's descriptor until it is told to quit.  The    *)
(* thread and the application share the pin's data without a lock.          *)

CONSTANTS
    TgPins,      \* the pins
    TgThreads,   \* bound: the threads that can be created, 1 .. n
    TgUnusual    \* what the application and the system do beyond the normal

ASSUME TgAssumption ==
    TgPins # {} /\ IsFiniteSet(TgThreads) /\ TgThreads = 1 .. Cardinality(TgThreads)

(* "watched"  a pin is released with its change callback still set          *)
(* "fails"    the interrupt's edge cannot be configured                     *)

VARIABLES
    tg_pins,     \* requested pins: data->callback, quit and the thread_id (0: none)
    tg_threads,  \* the threads: the pin of each and where it is
    tg_joining,  \* the pins unset_change_callback is joining the thread of
    tg_wrong     \* freed data was used, or a thread that does not exist joined

tgvars == <<tg_pins, tg_threads, tg_joining, tg_wrong>>

TgTypeOK ==
    /\ DOMAIN tg_pins \subseteq TgPins
    /\ \A p \in DOMAIN tg_pins :
         tg_pins[p] \in [callback : BOOLEAN, quit : BOOLEAN, thread : TgThreads \cup {0}]
    /\ tg_threads \in [TgThreads -> [pin : TgPins, at : {"new", "poll", "callback", "ended"}]]
    /\ tg_joining \subseteq TgPins
    /\ tg_wrong \in BOOLEAN

TgInit ==
    /\ tg_pins = [p \in {} |-> 0]
    /\ tg_threads \in [TgThreads -> [pin : {CHOOSE p \in TgPins : TRUE}, at : {"new"}]]
    /\ tg_joining = {} /\ tg_wrong = FALSE

TgListed(p) == p \in DOMAIN tg_pins
TgCreated == Cardinality({t \in TgThreads : tg_threads[t].at # "new"})

TgPut(p, data) ==
    tg_pins' = [q \in DOMAIN tg_pins \cup {p} |-> IF q = p THEN data ELSE tg_pins[q]]

(* The data is allocated when the pin's device could be opened.             *)
TgRequest(p) ==
    /\ ~TgListed(p)
    /\ TgPut(p, [callback |-> FALSE, quit |-> FALSE, thread |-> 0])
    /\ UNCHANGED <<tg_threads, tg_joining, tg_wrong>>

(* The descriptor is closed and the data freed.                             *)
TgRelease(p) ==
    /\ TgListed(p) /\ p \notin tg_joining
    /\ "watched" \in TgUnusual \/ ~tg_pins[p].callback
    /\ tg_pins' = [q \in DOMAIN tg_pins \ {p} |-> tg_pins[q]]
    /\ UNCHANGED <<tg_threads, tg_joining, tg_wrong>>

(* data->callback is set before the edge is configured and the thread       *)
(* created: a failure leaves it set.                                        *)
TgSetChangeCallback(p) ==
    /\ TgListed(p) /\ p \notin tg_joining /\ ~tg_pins[p].callback
    /\ TgCreated < Cardinality(TgThreads)
    /\ \E ok \in BOOLEAN :
         /\ ~ok => "fails" \in TgUnusual
         /\ TgPut(p, [callback |-> TRUE, quit |-> FALSE,
                      thread |-> IF ok THEN TgCreated + 1 ELSE tg_pins[p].thread])
         /\ tg_threads' = IF ok THEN [tg_threads EXCEPT ![TgCreated + 1] = [pin |-> p, at |-> "poll"]]
                          ELSE tg_threads
    /\ UNCHANGED <<tg_joining, tg_wrong>>

(* The callback is cleared without waiting for the thread.                  *)
MutTgUnsetChangeCallback(p) ==
    /\ TgListed(p) /\ p \notin tg_joining /\ tg_pins[p].callback
    /\ TgPut(p, [tg_pins[p] EXCEPT !.quit = TRUE, !.callback = FALSE])
    /\ UNCHANGED <<tg_threads, tg_joining, tg_wrong>>

(* The thread is told to quit, and joined: that is a step of its own.       *)
TgUnsetChangeCallback(p) ==
    /\ TgListed(p) /\ p \notin tg_joining /\ tg_pins[p].callback
    /\ TgPut(p, [tg_pins[p] EXCEPT !.quit = TRUE])
    /\ tg_joining' = tg_joining \cup {p}
    /\ tg_wrong' = (tg_wrong \/ tg_pins[p].thread = 0)
    /\ UNCHANGED tg_threads

TgJoined(p) ==
    /\ p \in tg_joining /\ TgListed(p)
    /\ tg_threads[tg_pins[p].thread].at = "ended"
    /\ TgPut(p, [tg_pins[p] EXCEPT !.callback = FALSE])
    /\ tg_joining' = tg_joining \ {p}
    /\ UNCHANGED <<tg_threads, tg_wrong>>

-----------------------------------------------------------------------------
(* The thread: quit is read before every poll, and the callback after it.   *)

TgAt(t, at) == tg_threads' = [tg_threads EXCEPT ![t].at = at]

(* poll returned: the pin changed and is read, or 100 ms passed, or failed. *)
TgPoll(t) ==
    LET p == tg_threads[t].pin IN
    /\ tg_threads[t].at = "poll"
    /\ tg_wrong' = (tg_wrong \/ ~TgListed(p))
    /\ IF ~TgListed(p) \/ tg_pins[p].quit THEN TgAt(t, "ended")
       ELSE \E at \in {"poll", "callback", "ended"} : TgAt(t, at)
    /\ UNCHANGED <<tg_pins, tg_joining>>

(* The application's callback returns; one that unsets itself is left out.  *)
TgCallback(t) ==
    LET p == tg_threads[t].pin IN
    /\ tg_threads[t].at = "callback"
    /\ tg_wrong' = (tg_wrong \/ ~TgListed(p))
    /\ TgAt(t, "poll")
    /\ UNCHANGED <<tg_pins, tg_joining>>

TgNext ==
    \/ \E p \in TgPins : TgRequest(p) \/ TgRelease(p) \/ TgSetChangeCallback(p)
                         \/ TgUnsetChangeCallback(p) \/ TgJoined(p)
    \/ \E t \in TgThreads : TgPoll(t) \/ TgCallback(t)

-----------------------------------------------------------------------------
TgRunning(p) == {t \in TgThreads : tg_threads[t].pin = p /\ tg_threads[t].at \in {"poll", "callback"}}

(* A pin's thread is the one its data names, so that unset joins every      *)
(* thread that could still use the data: however sets, unsets, releases and *)
(* new requests of the pin interleave with polling threads, a pin has at    *)
(* most one thread, none uses freed data, and none runs after unset has     *)
(* returned.                                                                *)
ThreadHasPin ==
    /\ TgTypeOK /\ ~tg_wrong
    /\ \A p \in TgPins : \A t \in TgRunning(p) :
         TgListed(p) /\ tg_pins[p].callback /\ tg_pins[p].thread = t
=============================================================================
