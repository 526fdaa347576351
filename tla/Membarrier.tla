----------------------------- MODULE Membarrier -----------------------------
(***************************************************************************)
(* art::membarrier (libartbase/base/membarrier.cc): the first call decides *)
(* once, in a function-local static, whether membarrier(2) may be used;    *)
(* every call then either fails with ENOSYS or issues the system call.     *)
(* The decision reads uname(2), parses the kernel release with             *)
(* sscanf("%d.%d") and, on Bionic, the device API level: on Android before *)
(* Q a seccomp filter kills a process that issues membarrier.  A build     *)
(* for another OS (not __linux__) has a membarrier that always fails.      *)
(*                                                                         *)
(* The initialisation of a function-local static is thread-safe (a        *)
(* concurrent first caller waits for it), so concurrent callers see one    *)
(* atomic decision; the model has one caller making a bounded number of    *)
(* calls on a device chosen by Init.                                       *)
(***************************************************************************)
EXTENDS Integers

CONSTANTS
  Majors, Minors,   \* kernel release numbers to try
  ApiLevels,        \* android_get_device_api_level() values to try
  MaxCalls

(* __ANDROID_API_Q__ and the kernel that introduced the expedited command. *)
AndroidQ == 29
ExpeditedSince == [major |-> 4, minor |-> 14]

(***************************************************************************)
(* Whether the build is for __linux__, and what uname(2) and sscanf give:  *)
(* the call may fail, sysname may not be "Linux", and sscanf converts two  *)
(* numbers, one (a release without a dot) or none (a release not starting  *)
(* with a number).                                                         *)
(***************************************************************************)
Devices ==
  [linuxBuild : BOOLEAN, unameOk : BOOLEAN, sysname : {"Linux", "Other"},
   converted : {0, 1, 2}, major : Majors, minor : Minors, bionic : BOOLEAN, api : ApiLevels]

VARIABLES
  device,     \* the machine the process runs on
  initialized, \* has the static membarrier_supported been initialised
  supported,  \* its value
  calls,      \* calls made so far
  result,     \* what the last call returned: 0 or -1
  errno,      \* errno after the last call
  syscalls    \* membarrier(2) system calls issued

vars == <<device, initialized, supported, calls, result, errno, syscalls>>

Init ==
  /\ device \in Devices
  /\ initialized = FALSE
  /\ supported = FALSE
  /\ calls = 0
  /\ result = 0
  /\ errno = "none"
  /\ syscalls = 0

(* Mutant: the version test comparing the minor number on its own.         *)
IsMemBarrierSupportedMinorOnly(d) ==
  LET kRequiredMajor == 4
      kRequiredMinor == 14
  IN  ~(\/ ~d.unameOk
        \/ d.sysname # "Linux"
        \/ d.converted # 2
        \/ d.major < kRequiredMajor \/ d.minor < kRequiredMinor)
      /\ (d.bionic => d.api >= AndroidQ)

(***************************************************************************)
(* IsMemBarrierSupported: uname succeeded, the system is Linux, sscanf     *)
(* converted both numbers and the version is at least 4.14; on Bionic the  *)
(* API level is at least Q.                                                *)
(***************************************************************************)
IsMemBarrierSupported(d) ==
  LET kRequiredMajor == 4
      kRequiredMinor == 14
  IN  ~(\/ ~d.unameOk
        \/ d.sysname # "Linux"
        \/ d.converted # 2
        \/ d.major < kRequiredMajor
        \/ (d.major = kRequiredMajor /\ d.minor < kRequiredMinor))
      /\ (d.bionic => d.api >= AndroidQ)

(***************************************************************************)
(* membarrier(command): initialise the static on the first call, then      *)
(* fail with ENOSYS or issue the system call, which succeeds here.         *)
(***************************************************************************)
Membarrier ==
  /\ device.linuxBuild
  /\ calls < MaxCalls
  /\ LET s == IF initialized THEN supported ELSE IsMemBarrierSupported(device)
     IN  /\ initialized' = TRUE
         /\ supported' = s
         /\ IF s
              THEN result' = 0 /\ syscalls' = syscalls + 1 /\ UNCHANGED errno
              ELSE result' = -1 /\ errno' = "ENOSYS" /\ UNCHANGED syscalls
  /\ calls' = calls + 1
  /\ UNCHANGED device

(* membarrier in a build for another OS: ENOSYS, always.                   *)
MembarrierNonLinux ==
  /\ ~device.linuxBuild
  /\ calls < MaxCalls
  /\ result' = -1 /\ errno' = "ENOSYS"
  /\ calls' = calls + 1
  /\ UNCHANGED <<device, initialized, supported, syscalls>>

Done == calls = MaxCalls /\ UNCHANGED vars

Next == Membarrier \/ MembarrierNonLinux \/ Done

Spec == Init /\ [][Next]_vars /\ WF_vars(Membarrier \/ MembarrierNonLinux)

-----------------------------------------------------------------------------
(* The kernel has the expedited command from release 4.14 on; the release  *)
(* is read from a well-formed uname.                                       *)
KernelHasExpedited(d) ==
  /\ d.linuxBuild /\ d.unameOk /\ d.sysname = "Linux" /\ d.converted = 2
  /\ d.major * 100 + d.minor >= ExpeditedSince.major * 100 + ExpeditedSince.minor

(* A device where the system call is safe and useful.                      *)
MembarrierUsable(d) ==
  KernelHasExpedited(d) /\ (d.bionic => d.api >= AndroidQ)

TypeOK ==
  /\ device \in Devices
  /\ initialized \in BOOLEAN /\ supported \in BOOLEAN
  /\ calls \in 0 .. MaxCalls
  /\ result \in {0, -1}
  /\ errno \in {"none", "ENOSYS"}
  /\ syscalls \in 0 .. calls

(***************************************************************************)
(* The system call is issued only on a device where it is usable (never    *)
(* on Android before Q, where seccomp would kill the process, nor on a     *)
(* kernel without the command), and on every such device it is issued     *)
(* rather than reported as ENOSYS.                                         *)
(***************************************************************************)
SyscallExactlyWhenUsable ==
  calls > 0 => (result = 0 <=> MembarrierUsable(device))

=============================================================================
