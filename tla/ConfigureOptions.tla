-------------------------- MODULE ConfigureOptions --------------------------
(* The options of the plugin command configure, what the process remembers *)
(* of them (commands.rs), and which of them make a client: the checks of   *)
(* ConfigurationBuilder::build (configuration.rs) and HttpClient::new.     *)
CONSTANTS
  TestKeys, StoreKeys,  \* API keys of the Test Store and of native stores
  Names, Anonymous,     \* App User IDs: chosen by the app, generated
  Absent, Empty, Blank, TooLong,  \* an option left out, "", "  ", over 1024 bytes
  CallOptions,          \* the options apps call configure with
  NoInstance, NoOptions

AppUserIDs == Names \union Anonymous
Keys == TestKeys \union StoreKeys \union {Blank}
Builds == [target : {"desktop", "ios", "android"}, debug : BOOLEAN]

ConfigureOptions ==
  [key : Keys, user : AppUserIDs \union {Absent, Empty, Blank, TooLong},
   proxy : {Absent, Empty, "https", "loopback", "http", "malformed"},
   mode : {"disabled", "informational", "enforced", Absent, "misspelt"},
   root : {Absent, "usable", "malformed"}, allow : BOOLEAN]

ASSUME OptionsAssumption == CallOptions \subseteq ConfigureOptions /\ NoOptions \notin CallOptions

\* Ids are told from missing and malformed ones.
ASSUME UsersAssumption ==
  AppUserIDs \intersect {Absent, Empty, Blank, TooLong} = {} /\ Absent # Empty

\* Option::filter(|value| !value.is_empty())
NonEmpty(value) == IF value = Empty THEN Absent ELSE value

Explicit(o) == NonEmpty(o.user)

VerificationMode(o) == IF o.mode = Absent THEN "informational" ELSE o.mode

\* Faulty variant of Fingerprint: the verification mode is not part of it.
FingerprintWithoutMode(o) ==
  [key |-> o.key, user |-> Explicit(o), proxy |-> NonEmpty(o.proxy),
   mode |-> "informational", root |-> o.root, allow |-> o.allow]

\* ConfigureFingerprint::from_options
Fingerprint(o) ==
  [key |-> o.key, user |-> Explicit(o), proxy |-> NonEmpty(o.proxy),
   mode |-> VerificationMode(o), root |-> o.root, allow |-> o.allow]

Mobile(build) == build.target \in {"ios", "android"}

StoreOf(build, o) ==
  IF o.key \in TestKeys THEN "test store"
  ELSE IF build.target = "android" THEN "play store" ELSE "app store"

\* What the instance sends its requests with.
ClientOf(o) ==
  [key |-> o.key,
   base |-> IF NonEmpty(o.proxy) = Absent THEN "api.revenuecat.com" ELSE o.proxy,
   mode |-> VerificationMode(o),
   root |-> IF VerificationMode(o) = "disabled" THEN "none"
            ELSE IF o.root = Absent THEN "production" ELSE o.root]

Instances == [fingerprint : {Fingerprint(o) : o \in CallOptions},
              client : {ClientOf(o) : o \in CallOptions},
              store : {"test store", "play store", "app store"}, user : AppUserIDs]

ASSUME NoInstanceAssumption == NoInstance \notin Instances

\* ConfigurationBuilder::build and HttpClient::new accept o for the user.
Valid(build, o, user) ==
  /\ o.key # Blank
  /\ user # TooLong
  /\ o.key \in TestKeys => ~Mobile(build) \/ build.debug \/ o.allow
  /\ NonEmpty(o.proxy) \in {Absent, "https", "loopback"}
  /\ VerificationMode(o) # "disabled" => o.root # "malformed"
=============================================================================
