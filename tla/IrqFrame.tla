------------------------------ MODULE IrqFrame ------------------------------
(***************************************************************************)
(* The interrupt handlers that rewrite the stack: rtc and network          *)
(* (bmos/interrupt.asm).  When a program has registered a callback, the    *)
(* handler does not call it; it moves the interrupt frame down one word,   *)
(* puts the address the program was interrupted at where the program's     *)
(* stack ends, and makes iretq go to clock_callback or network_callback,   *)
(* which calls the callback and then returns into the program.  Callbacks  *)
(* run with interrupts enabled, so frames nest.                            *)
(*                                                                         *)
(* One core, its stack word by word.  Word n is at address 8 * n; a word   *)
(* is a pair of what it holds and a value.  What is below RSP is junk.     *)
(***************************************************************************)
EXTENDS Integers, Sequences

CONSTANTS
  Top,        \* words of stack
  MaxNest,    \* callbacks that may be under way at once (bounds the model)
  ClearDF,    \* no program with a clock callback sets the direction flag, nor a kernel call for it
  OthersSet   \* callbacks and other cores, too, register and remove callbacks

ASSUME IrqAssumption ==
  /\ Top \in Nat /\ Top >= 20 * (MaxNest + 1) + 4
  /\ MaxNest \in Nat
  /\ ClearDF \in BOOLEAN /\ OthersSet \in BOOLEAN

VARIABLES
  stack,        \* the words of the stack
  rsp, rip, df, \* stack pointer, instruction pointer and direction flag
  regs,         \* RAX, RCX, RSI, RDI
  callback,     \* is os_ClockCallback, os_NetworkCallback not 0?
  interrupted,  \* what was interrupted and has not been resumed, oldest first
  calledZero    \* a callback was called through a pointer that is 0

irqVars == <<stack, rsp, rip, df, regs, callback, interrupted, calledZero>>

Junk == <<"junk", "junk">>
Words == 0 .. Top - 1
ProgramPoints == {"p0", "p1"}
Sources == {"clock", "network"}

\* The addresses in clock_callback and network_callback, and the callbacks themselves.
Entry(src) == <<src, "pushfq">>
Body(src) == <<src, "body">>
Popfq(src) == <<src, "popfq">>
LastRet(src) == <<src, "ret">>
Points == {<<"program", p>> : p \in ProgramPoints}
            \cup UNION {{Entry(s), Body(s), Popfq(s), LastRet(s)} : s \in Sources}

IrqInit ==
  /\ stack = [a \in Words |-> Junk]
  /\ rsp = Top - 1
  /\ rip = <<"program", "p0">>
  /\ df = FALSE
  /\ regs = [r \in {"rax", "rcx", "rsi", "rdi"} |-> <<"reg", r>>]
  /\ callback = [s \in Sources |-> FALSE]
  /\ interrupted = <<>>
  /\ calledZero = FALSE

\* What is below the stack pointer may be overwritten at any time.
Clean(m, sp) == [a \in Words |-> IF a < sp THEN Junk ELSE m[a]]

-----------------------------------------------------------------------------
(* Instructions of the handlers, on a record of the machine                *)

Machine == [m |-> stack, rsp |-> rsp, rip |-> rip, df |-> df, r |-> regs]

Push(s, w) == [s EXCEPT !.rsp = @ - 1, !.m[s.rsp - 1] = w]
PushReg(s, x) == Push(s, s.r[x])
PopReg(s, x) == [s EXCEPT !.rsp = @ + 1, !.r[x] = s.m[s.rsp]]
PushFlags(s) == Push(s, <<"flags", s.df>>)
PopFlags(s) == [s EXCEPT !.rsp = @ + 1, !.df = IF s.m[s.rsp][1] = "flags" THEN s.m[s.rsp][2] ELSE @]

\* The processor: align the stack to 16 bytes, push SS, RSP, flags, CS and RIP.
Deliver(s) ==
  LET aligned == [s EXCEPT !.rsp = @ - (@ % 2)]
  IN  Push(Push(Push(Push(Push(aligned, <<"seg", "ss">>), <<"rsp", s.rsp>>), <<"flags", s.df>>),
                <<"seg", "cs">>), <<"rip", s.rip>>)

\* iretq; a frame that is not one leaves the core nowhere (a fault, in truth).
Iretq(s) ==
  IF s.m[s.rsp][1] = "rip" /\ s.m[s.rsp + 2][1] = "flags" /\ s.m[s.rsp + 3][1] = "rsp"
    THEN [s EXCEPT !.rip = s.m[s.rsp][2], !.df = s.m[s.rsp + 2][2], !.rsp = s.m[s.rsp + 3][2]]
    ELSE [s EXCEPT !.rip = Junk]

\* String instructions, from RSI to RDI, which hold stack addresses here: up, or down when
\* the direction flag is set.
Step(s) == IF s.df THEN -1 ELSE 1
Lodsq(c) == [c EXCEPT !.ax = c.s.m[c.si], !.si = @ + Step(c.s)]
Stosq(c, w) == [c EXCEPT !.s.m[c.di] = w, !.di = @ + Step(c.s)]
Movsq(c) == [c EXCEPT !.s.m[c.di] = c.s.m[c.si], !.si = @ + Step(c.s), !.di = @ + Step(c.s)]
Movs(c, n) ==
  LET Moved[i \in 0 .. n] == IF i = 0 THEN c ELSE Movsq(Moved[i - 1])
  IN  Moved[n]

\* A plausible bug: RSP is copied as it is, without room for the address to return to.
InsertCallbackOverTop(s, n, src) ==
  LET start == [s |-> [s EXCEPT !.rsp = @ - 1], si |-> s.rsp, di |-> s.rsp - 1, ax |-> Junk]
      atRip == Lodsq(Movs(start, n))
      atRsp == Lodsq(Movs(Stosq(atRip, <<"rip", Entry(src)>>), 2))
      moved == Movsq(Stosq(atRsp, atRsp.ax)).s
  IN  IF atRsp.ax[1] = "rsp" THEN [moved EXCEPT !.m[atRsp.ax[2]] = atRip.ax] ELSE moved

\* From mov rcx, ..._callback to mov [rax], rcx: with n words pushed above the frame.
InsertCallback(s, n, src) ==
  LET start == [s |-> [s EXCEPT !.rsp = @ - 1], si |-> s.rsp, di |-> s.rsp - 1, ax |-> Junk]
      atRip == Lodsq(Movs(start, n))
      origRip == atRip.ax
      atRsp == Lodsq(Movs(Stosq(atRip, <<"rip", Entry(src)>>), 2))
      newRsp == IF atRsp.ax[1] = "rsp" THEN <<"rsp", atRsp.ax[2] - 1>> ELSE Junk
      moved == Movsq(Stosq(atRsp, newRsp)).s
  IN  IF newRsp # Junk THEN [moved EXCEPT !.m[newRsp[2]] = origRip] ELSE moved

\* rtc
RtcHandler(s) ==
  LET saved == PushFlags(PushReg(Deliver(s), "rax"))
      more == PushReg(PushReg(PushReg(saved, "rdi"), "rsi"), "rcx")
      called == InsertCallback(more, 5, "clock")
      back == PopReg(PopReg(PopReg(called, "rcx"), "rsi"), "rdi")
  IN  Iretq(PopReg(PopFlags(IF callback["clock"] THEN back ELSE saved), "rax"))

\* A plausible bug: RSI and RDI are popped in the order they were pushed.
NetworkHandlerSwapped(s, rx) ==
  LET saved == PushFlags(PushReg(PushReg(PushReg(PushReg(Deliver(s), "rdi"), "rsi"), "rcx"), "rax"))
      cleared == [saved EXCEPT !.df = FALSE]
      called == IF rx /\ callback["network"] THEN InsertCallback(cleared, 5, "network") ELSE cleared
  IN  Iretq(PopReg(PopReg(PopReg(PopReg(PopFlags(called), "rax"), "rcx"), "rdi"), "rsi"))

\* network; rx: the card has received a packet, and not only sent one.
NetworkHandler(s, rx) ==
  LET saved == PushFlags(PushReg(PushReg(PushReg(PushReg(Deliver(s), "rdi"), "rsi"), "rcx"), "rax"))
      cleared == [saved EXCEPT !.df = FALSE]
      called == IF rx /\ callback["network"] THEN InsertCallback(cleared, 5, "network") ELSE cleared
  IN  Iretq(PopReg(PopReg(PopReg(PopReg(PopFlags(called), "rax"), "rcx"), "rsi"), "rdi"))

-----------------------------------------------------------------------------
(* Steps of the core                                                       *)

Become(s) ==
  /\ stack' = Clean(s.m, s.rsp)
  /\ rsp' = s.rsp
  /\ rip' = s.rip
  /\ df' = s.df
  /\ regs' = s.r

\* The state a callback must come back to.
Context == [rip |-> rip, rsp |-> rsp, df |-> df, regs |-> regs, stack |-> stack]

Nest(nested) ==
  /\ nested => Len(interrupted) < MaxNest
  /\ interrupted' = IF nested THEN Append(interrupted, Context) ELSE interrupted

Rtc ==
  /\ rip # Junk
  /\ Become(RtcHandler(Machine))
  /\ Nest(callback["clock"])
  /\ UNCHANGED <<callback, calledZero>>

Network(rx) ==
  /\ rip # Junk
  /\ Become(NetworkHandler(Machine, rx))
  /\ Nest(rx /\ callback["network"])
  /\ UNCHANGED <<callback, calledZero>>

\* pushfq and call [os_ClockCallback] or call [os_NetworkCallback].
CallCallback(src) ==
  /\ rip = Entry(src)
  /\ Become([Push(PushFlags(Machine), <<"rip", Popfq(src)>>) EXCEPT !.rip = Body(src)])
  /\ calledZero' = (calledZero \/ ~ callback[src])
  /\ UNCHANGED <<callback, interrupted>>

Ret(s) == [s EXCEPT !.rsp = @ + 1,
                    !.rip = IF s.m[s.rsp][1] = "rip" THEN s.m[s.rsp][2] ELSE Junk]

CallbackReturns(src) ==
  /\ rip = Body(src)
  /\ Become(Ret(Machine))
  /\ UNCHANGED <<callback, interrupted, calledZero>>

PopTheFlags(src) ==
  /\ rip = Popfq(src)
  /\ Become([PopFlags(Machine) EXCEPT !.rip = LastRet(src)])
  /\ UNCHANGED <<callback, interrupted, calledZero>>

\* ret, to the address the handler stored: the program is back.
Resume(src) ==
  /\ rip = LastRet(src)
  /\ Become(Ret(Machine))
  /\ interrupted' = SubSeq(interrupted, 1, Len(interrupted) - 1)
  /\ UNCHANGED <<callback, calledZero>>

-----------------------------------------------------------------------------
(* The program: pushes, pops, goes on, and sets and clears the direction    *)
(* flag, as os_mem_allocate does for it.                                    *)

Running == rip \in {<<"program", p>> : p \in ProgramPoints}
GoesTo(s) == \E p \in ProgramPoints : Become([s EXCEPT !.rip = <<"program", p>>])

ProgramStep ==
  /\ Running
  /\ \/ rsp > Top - 3 /\ GoesTo(Push(Machine, <<"data", "data">>))
     \/ rsp < Top - 1 /\ GoesTo([Machine EXCEPT !.rsp = @ + 1])
     \/ GoesTo([Machine EXCEPT !.df = FALSE])
     \/ ~ (ClearDF /\ callback["clock"]) /\ GoesTo([Machine EXCEPT !.df = TRUE])
  /\ UNCHANGED <<callback, interrupted, calledZero>>

\* os_system_config, functions 4 and 6.
SetCallback(src, b) ==
  /\ Running \/ OthersSet
  /\ ~ (ClearDF /\ df /\ src = "clock")
  /\ callback' = [callback EXCEPT ![src] = b]
  /\ UNCHANGED <<stack, rsp, rip, df, regs, interrupted, calledZero>>

IrqNext ==
  \/ Rtc
  \/ \E rx \in BOOLEAN : Network(rx)
  \/ \E src \in Sources :
       CallCallback(src) \/ CallbackReturns(src) \/ PopTheFlags(src) \/ Resume(src)
  \/ ProgramStep
  \/ \E src \in Sources, b \in BOOLEAN : SetCallback(src, b)

IrqSpec == IrqInit /\ [][IrqNext]_irqVars

-----------------------------------------------------------------------------
(* Properties                                                              *)

\* What a program, or a callback that was itself interrupted, has on its stack is there for as
\* long as it is interrupted.
StacksKept ==
  \A i \in DOMAIN interrupted :
    \A a \in interrupted[i].rsp .. Top - 1 : stack[a] = interrupted[i].stack[a]

\* Once the callback has finished, the execution flow picks up where it was: same instruction,
\* stack, flags and registers.  A handler without a callback changes none of them.  And what is
\* called is there: no callback is removed between the handler's test and the call.
ResumesIntact ==
  [][/\ Len(interrupted') < Len(interrupted) =>
          LET c == interrupted[Len(interrupted)]
          IN  /\ rip' = c.rip /\ rsp' = c.rsp /\ df' = c.df /\ regs' = c.regs
              /\ stack' = c.stack
     /\ (Rtc \/ \E rx \in BOOLEAN : Network(rx)) /\ interrupted' = interrupted =>
          UNCHANGED <<stack, rsp, rip, df, regs>>
     /\ ~ calledZero']_irqVars

\* "Once the callback has finished, the execution flow will pick up back in the program."  The
\* core never leaves the code.
PicksUpBack == rip \in Points
=============================================================================
