---------------------------- MODULE SocketOptions ----------------------------
(***************************************************************************)
(* The socket options of net::Socket (src/zedio/net/socket.hpp) and of     *)
(* net::detail::SocketIO (src/zedio/net/io.hpp).                           *)
(*   - setsockopt options: each setter converts its argument to the        *)
(*     option's C value and calls set_sock_opt (::setsockopt); each getter *)
(*     calls get_sock_opt (::getsockopt) and converts the C value back.    *)
(*     The kernel stores booleans as 0/1, checks IP_TTL against 1..255,    *)
(*     stores twice the asked SO_RCVBUF/SO_SNDBUF, first capped at         *)
(*     rmem_max/wmem_max as an unsigned value (so a negative int is taken  *)
(*     as the cap), but at least its minimum (socket(7), sock_setsockopt)  *)
(*     and refuses SO_MARK without CAP_NET_ADMIN.                          *)
(*   - fcntl options (Socket only): set_nodelay/set_nonblocking read the   *)
(*     file status flags with F_GETFL, set or clear one bit and write them *)
(*     back with F_SETFL; nodelay()/nonblocking() test the bit.  The bits  *)
(*     are Linux's: O_NDELAY is defined as O_NONBLOCK.                     *)
(* A ghost records what each option was last successfully set to.         *)
(***************************************************************************)
EXTENDS Integers, Bitwise

CONSTANTS
  Impls,       \* the classes whose options are used: "Socket", "SocketIO"
  FdOpen,      \* the values fd_ >= 0 may have: {TRUE} or BOOLEAN
  BoolOpts,    \* the boolean setsockopt options exercised
  Ttls,        \* arguments of set_ttl
  Seconds,     \* durations given to set_linger (besides std::nullopt)
  BufSizes,    \* arguments of set_recv_buffer_size / set_send_buffer_size
  CapNetAdmin  \* the process may set SO_MARK

ASSUME /\ Impls \subseteq {"Socket", "SocketIO"}
       /\ BoolOpts \subseteq {"reuseaddr", "reuseport", "broadcast", "keepalive"}
       /\ CapNetAdmin \in BOOLEAN

BufOpts   == {"rcvbuf", "sndbuf"}
SockOpts  == BoolOpts \cup BufOpts \cup {"ttl", "linger", "passcred", "mark"}
FcntlOpts == {"nodelay", "nonblocking"}
\* The options each class has setters for (SocketIO adds SO_PASSCRED and
\* SO_MARK, Socket the two fcntl options).
OptsOf(i) == IF i = "Socket" THEN BoolOpts \cup BufOpts \cup {"ttl", "linger"} \cup FcntlOpts
             ELSE BoolOpts \cup BufOpts \cup {"ttl", "linger", "passcred", "mark"}
\* set_mark has no getter.
Gettable(i) == OptsOf(i) \ {"mark"}

MinBuf     == [rcvbuf |-> 2304, sndbuf |-> 4608]  \* SOCK_MIN_RCVBUF, SOCK_MIN_SNDBUF
MaxBuf     == [rcvbuf |-> 212992, sndbuf |-> 212992]  \* net.core.rmem_max, wmem_max defaults
NoLinger   == -1    \* std::nullopt as a linger duration
O_RDWR     == 2
O_APPEND   == 1024
O_NONBLOCK == 2048
O_NDELAY   == O_NONBLOCK
AllBits    == 2^12 - 1     \* the modelled bits of the flags word
Compl(m)   == AllBits - m  \* C's ~m on those bits

VARIABLES
  impl,   \* the class of the object whose options are used
  open,   \* fd_ >= 0
  kopt,   \* kopt[o]: the C value the kernel holds for setsockopt option o
  flags,  \* the file status flags of the fd
  want,   \* ghost: want[o] = <<v>>: option o was last set to v; <<>>: never
  seen    \* the last getter call: option, ok, value

vars == <<impl, open, kopt, flags, want, seen>>

\* A socket from build_socket (SOCK_NONBLOCK) or, for Socket, from_fd of
\* another fd: read-write and blocking, or read-only with O_APPEND and
\* O_NONBLOCK.  Boolean options are off, the TTL is the default, no
\* linger, TCP_NODELAY off.
Init ==
  /\ impl \in Impls
  /\ open \in FdOpen
  /\ kopt = [o \in SockOpts |->
               CASE o = "ttl"     -> 64
                 [] o = "linger"  -> [onoff |-> 0, secs |-> 0]
                 [] o \in BufOpts -> 2 * 106496
                 [] OTHER         -> 0]
  /\ flags \in IF impl = "SocketIO" THEN {O_RDWR | O_NONBLOCK}
               ELSE {O_RDWR, O_APPEND | O_NONBLOCK}
  /\ want = [o \in SockOpts \cup FcntlOpts |->
               CASE o = "nodelay"     -> <<FALSE>>
                 [] o = "nonblocking" -> <<flags & O_NONBLOCK # 0>>
                 [] OTHER             -> <<>>]
  /\ seen = [opt |-> "none", ok |-> TRUE, val |-> 0]

----------------------------------------------------------------------------
(* setsockopt options                                                      *)

\* The kernel's SO_RCVBUF/SO_SNDBUF: min_t(u32, c, max), which takes a
\* negative int as a u32 above any cap, then twice that but at least the
\* minimum.
KernelBuf(o, c) ==
  LET capped == IF c < 0 \/ c > MaxBuf[o] THEN MaxBuf[o] ELSE c
  IN  IF 2 * capped > MinBuf[o] THEN 2 * capped ELSE MinBuf[o]

\* set_sock_opt(level, optname, &c, sizeof c) and the kernel's handling of
\* it: an error on a closed fd or a refused value, else the kernel stores
\* what it makes of c.  v is the setter's own argument.
SetSockOpt(o, c, v) ==
  /\ IF open /\ (o = "ttl" => c \in 1..255) /\ (o = "mark" => CapNetAdmin)
     THEN /\ kopt' = [kopt EXCEPT ![o] =
                        CASE o \in BufOpts -> KernelBuf(o, c)
                          [] o = "ttl" \/ o = "linger" -> c
                          [] OTHER         -> IF c # 0 THEN 1 ELSE 0]
          /\ want' = [want EXCEPT ![o] = <<v>>]
     ELSE UNCHANGED <<kopt, want>>
  /\ UNCHANGED <<impl, open, flags, seen>>
\* SocketIO::set_sock_opt: the same call.
IoSetSockOpt(o, c, v) == SetSockOpt(o, c, v)

\* Socket::set_reuseaddr ... set_keepalive(on): optval{on ? 1 : 0}.
SetBool(o, on) == SetSockOpt(o, IF on THEN 1 ELSE 0, on)
\* SocketIO::set_reuseaddr ... set_keepalive, set_passcred(on).
IoSetBool(o, on) == IoSetSockOpt(o, IF on THEN 1 ELSE 0, on)
\* SocketIO::set_mark(mark).
set_mark(m) == IoSetSockOpt("mark", m, m)
\* set_ttl(ttl).
SetTtl(t) == SetSockOpt("ttl", t, t)
\* SocketIO::set_ttl(ttl).
IoSetTtl(t) == IoSetSockOpt("ttl", t, t)
\* set_linger(duration): l_onoff 1 and l_linger = count() when there is one.
SetLinger(d) ==
  SetSockOpt("linger", IF d = NoLinger THEN [onoff |-> 0, secs |-> 0]
                       ELSE [onoff |-> 1, secs |-> d], d)
\* SocketIO::set_linger(duration): the same lin.
IoSetLinger(d) ==
  IoSetSockOpt("linger", IF d = NoLinger THEN [onoff |-> 0, secs |-> 0]
                         ELSE [onoff |-> 1, secs |-> d], d)
\* set_recv_buffer_size(size) / set_send_buffer_size(size).
SetBuf(o, n) == SetSockOpt(o, n, n)
\* SocketIO::set_recv_buffer_size(size) / set_send_buffer_size(size).
IoSetBuf(o, n) == IoSetSockOpt(o, n, n)

\* Socket's boolean getters: optval == 1.
BoolValue(c) == c = 1
\* SocketIO's boolean getters: optval != 0.
IoBoolValue(c) == c # 0
\* Mutant of LingerValue: the two branches of the l_onoff test are swapped.
LingerValueSwapped(c) == IF c.onoff = 0 THEN c.secs ELSE NoLinger
\* linger(): std::nullopt when l_onoff == 0, else seconds(l_linger).
LingerValue(c) == IF c.onoff = 0 THEN NoLinger ELSE c.secs
\* SocketIO::linger(): the same test of l_onoff.
IoLingerValue(c) == IF c.onoff = 0 THEN NoLinger ELSE c.secs
\* What get_sock_opt's C value c of option o becomes in Socket's getter;
\* ttl() and the buffer sizes (static_cast<size_t>) return it as it is.
Value(o, c) ==
  CASE o \in BoolOpts -> BoolValue(c)
    [] o = "linger"  -> LingerValue(c)
    [] OTHER         -> c
\* The same for SocketIO's getters, passcred() included.
IoValue(o, c) ==
  CASE o \in BoolOpts \cup {"passcred"} -> IoBoolValue(c)
    [] o = "linger"                    -> IoLingerValue(c)
    [] OTHER                           -> c

\* A getter: get_sock_opt fails on a closed fd, else the converted value.
Get(o) ==
  /\ seen' = IF open THEN [opt |-> o, ok |-> TRUE, val |-> Value(o, kopt[o])]
             ELSE [opt |-> o, ok |-> FALSE, val |-> 0]
  /\ UNCHANGED <<impl, open, kopt, flags, want>>
\* SocketIO::get_sock_opt and its getters.
IoGet(o) ==
  /\ seen' = IF open THEN [opt |-> o, ok |-> TRUE, val |-> IoValue(o, kopt[o])]
             ELSE [opt |-> o, ok |-> FALSE, val |-> 0]
  /\ UNCHANGED <<impl, open, kopt, flags, want>>

----------------------------------------------------------------------------
(* fcntl options of Socket                                                 *)

\* ::fcntl(fd_, F_GETFL, 0): the flags, or -1 on a bad fd.
GetFl == IF open THEN flags ELSE -1

\* Mutant of Update: the bit is added and subtracted instead of or-ed and
\* masked, so setting a set bit carries into the next one.
UpdateAdd(f, bit, on) == IF on THEN f + bit ELSE f - bit
\* Mutant of Update: the flags are overwritten with the one bit.
UpdateAssign(f, bit, on) == IF on THEN bit ELSE 0
\* flags |= bit or flags &= ~bit, on the value F_GETFL returned.
Update(f, bit, on) == IF on THEN f | bit ELSE f & Compl(bit)

\* set_nodelay(on) / set_nonblocking(on): F_GETFL, update the bit, and
\* F_SETFL, which succeeds on an open fd.
SetFlag(o, bit, on) ==
  /\ IF open THEN /\ flags' = Update(GetFl, bit, on)
                  /\ want' = [want EXCEPT ![o] = <<on>>]
     ELSE UNCHANGED <<flags, want>>
  /\ UNCHANGED <<impl, open, kopt, seen>>
set_nodelay(on)     == SetFlag("nodelay", O_NDELAY, on)
set_nonblocking(on) == SetFlag("nonblocking", O_NONBLOCK, on)

\* nodelay() / nonblocking(): an error if F_GETFL fails, else flags & bit
\* converted to bool.
GetFlag(o, bit) ==
  /\ seen' = IF GetFl = -1 THEN [opt |-> o, ok |-> FALSE, val |-> FALSE]
             ELSE [opt |-> o, ok |-> TRUE, val |-> GetFl & bit # 0]
  /\ UNCHANGED <<impl, open, kopt, flags, want>>
nodelay     == GetFlag("nodelay", O_NDELAY)
nonblocking == GetFlag("nonblocking", O_NONBLOCK)

----------------------------------------------------------------------------

Next ==
  \/ impl = "Socket" /\
       \/ \E o \in BoolOpts, on \in BOOLEAN : SetBool(o, on)
       \/ \E on \in BOOLEAN : set_nodelay(on) \/ set_nonblocking(on)
       \/ nodelay \/ nonblocking
       \/ \E t \in Ttls : SetTtl(t)
       \/ \E d \in Seconds \cup {NoLinger} : SetLinger(d)
       \/ \E o \in BufOpts, n \in BufSizes : SetBuf(o, n)
       \/ \E o \in Gettable(impl) \ FcntlOpts : Get(o)
  \/ impl = "SocketIO" /\
       \/ \E o \in BoolOpts \cup {"passcred"}, on \in BOOLEAN : IoSetBool(o, on)
       \/ \E m \in {0, 7} : set_mark(m)
       \/ \E t \in Ttls : IoSetTtl(t)
       \/ \E d \in Seconds \cup {NoLinger} : IoSetLinger(d)
       \/ \E o \in BufOpts, n \in BufSizes : IoSetBuf(o, n)
       \/ \E o \in Gettable(impl) : IoGet(o)

Spec == Init /\ [][Next]_vars

----------------------------------------------------------------------------

TypeOK ==
  /\ impl \in Impls /\ open \in BOOLEAN
  /\ \A o \in SockOpts :
       kopt[o] \in IF o = "linger" THEN [onoff : {0, 1}, secs : Int] ELSE Int
  /\ flags \in 0..AllBits
  /\ seen.opt \in SockOpts \cup FcntlOpts \cup {"none"} /\ seen.ok \in BOOLEAN

\* (Only getters change seen; a getter repeating the previous call's
\* result is a stuttering step, checked when that result first appeared.)
\* A setsockopt getter that succeeds after its setter succeeded reports the
\* value the setter was given (booleans, TTL, SO_LINGER, in either class);
\* the buffer sizes report what the kernel made of it: at least that size
\* when it is within the cap, and the doubled cap when it is above the cap
\* or negative (set_*_buffer_size takes an int).
GetterReportsSetting ==
  [][seen' # seen /\ seen'.opt \in SockOpts /\ seen'.ok /\ want[seen'.opt] # <<>> =>
       LET v == want[seen'.opt][1] IN
       CASE seen'.opt \in BufOpts /\ v \in 0..MaxBuf[seen'.opt] -> seen'.val >= v
         [] seen'.opt \in BufOpts -> seen'.val = 2 * MaxBuf[seen'.opt]
         [] OTHER -> seen'.val = v]_vars

\* The fcntl setters change no status flag besides their own bit: the
\* access mode and O_APPEND stay as they were.
OtherFlagsKept ==
  [][flags' & (O_RDWR | O_APPEND) = flags & (O_RDWR | O_APPEND)]_vars

\* nodelay() and nonblocking() report what set_nodelay and set_nonblocking
\* last set (TCP_NODELAY off on a new socket): the two options are
\* independent.
OptionReportsSetting ==
  [][seen' # seen /\ seen'.opt \in FcntlOpts /\ seen'.ok =>
       seen'.val = want[seen'.opt][1]]_vars
=============================================================================
