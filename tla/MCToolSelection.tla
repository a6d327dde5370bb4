--------------------------- MODULE MCToolSelection ---------------------------
(* ToolSelection with the tiers of tiers.go, and sources that vary in what  *)
(* they say of the tiers and lists, or of the network.                      *)
EXTENDS ToolSelection

Observing ==
  {"Snapshot", "AnnotatedSnapshot", "GetClipboard", "GetSystemInfo",
   "ListProcesses", "FileList", "FileSearch", "RegRead", "ServiceList",
   "TaskList", "EventLog", "Ping", "PortCheck", "NetConnections", "OCR",
   "ScreenRecord", "Notification", "Wait", "GetTaskStatus", "GetRunningTasks"}
Interacting ==
  {"Click", "Type", "Move", "Scroll", "Shortcut", "FocusWindow",
   "MinimizeAll", "Scrape", "CancelTask", "ReconnectSession"}
Destructive ==
  {"Shell", "App", "PlaySound", "FileRead", "FileWrite", "FileDownload",
   "FileUpload", "KillProcess", "RegWrite", "ServiceStart", "ServiceStop",
   "TaskCreate", "TaskDelete", "SetClipboard", "LockScreen"}

SomeKeys == {"", "key"}

EmptyFile ==
  [tier3 |-> Unset, noTier2 |-> Unset, enable |-> {}, exclude |-> {},
   loopback |-> Unset, authKey |-> Unset, insecure |-> Unset]

ToolFiles ==
  {[EmptyFile EXCEPT !.tier3 = a, !.noTier2 = b, !.enable = l, !.exclude = x] :
     a \in {Unset, TRUE, FALSE}, b \in {Unset, TRUE},
     l \in {{}, {"Snapshot", "Shell"}}, x \in {{}, {"Shell", "Click"}}}

NetworkFiles ==
  {[EmptyFile EXCEPT !.tier3 = a, !.loopback = h, !.authKey = k, !.insecure = i] :
     a \in {Unset, TRUE}, h \in {Unset, FALSE}, k \in {Unset, "key"}, i \in {Unset, TRUE}}

SomeFiles == ToolFiles \cup NetworkFiles

PlainFlags ==
  [transport |-> "streamable-http", dir |-> FALSE, all |-> FALSE,
   tier3 |-> Unset, noTier2 |-> Unset, tools |-> Unset, exclude |-> Unset,
   loopback |-> Unset, authKey |-> Unset, insecure |-> Unset,
   oauth |-> "none", tls |-> "none"]

ToolLines ==
  {[PlainFlags EXCEPT !.all = a, !.tier3 = b, !.noTier2 = c, !.tools = l, !.exclude = x] :
     a \in BOOLEAN, b \in {Unset, TRUE, FALSE}, c \in {Unset, TRUE},
     l \in {Unset, {}, {"Shell", "Click"}, {"Snapshoot"}}, x \in {Unset, {}, {"Shell"}, {"Shel"}}}

NetworkLines ==
  {[PlainFlags EXCEPT !.all = a, !.loopback = h, !.authKey = k, !.insecure = i,
                      !.oauth = o] :
     a \in BOOLEAN, h \in {Unset, TRUE, FALSE}, k \in {Unset, "", "key"},
     i \in {Unset, TRUE, FALSE}, o \in {"none", "half", "no redirect", "complete"}}

OtherLines ==
  {[PlainFlags EXCEPT !.transport = t, !.dir = d, !.loopback = FALSE, !.tls = s] :
     t \in {"stdio", "streamable-http", "dir", "sse"}, d \in BOOLEAN,
     s \in {"none", "half", "complete"}}

SomeLines == ToolLines \cup NetworkLines \cup OtherLines
=============================================================================
