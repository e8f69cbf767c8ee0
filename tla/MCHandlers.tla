------------------------------ MODULE MCHandlers ------------------------------
(***************************************************************************)
(* The components of a session whose steps are handlers of the main loop,  *)
(* each run to its end, one component at a time: a behaviour is about one  *)
(* of the parts, chosen in the initial state, and the variables s1, s2,    *)
(* ... are those of its module.  The parts share nothing, so the states    *)
(* of the model are the sum of theirs.                                     *)
(***************************************************************************)
EXTENDS Integers, Sequences, FiniteSets, TLC

CONSTANTS
    Keyvals, Keycodes, VncButtons,  \* VncInput: symbols, keys, buttons of the pointer
    Codes, Chars, RdpButtons,       \* RdpInput: scan codes, characters, buttons
    MaxPressed,                     \* both: bound of the keys that are remembered
    HeldTabs, MaxHeld,              \* HostKey: tabs; bound of the keys that are held
    MaxServer, MaxWidget,           \* ScreenGeometry: sizes of the screen and the widget
    BarTabs, Features,              \* ToolbarState: tabs, and what each can do
    SshChains,                      \* SshAuth: what servers ask for, method sets in turn
    Shells, MaxChans,               \* X11Channels: shells; bound of addresses
    UnlockTimeout, MaxNow, MaxUses, \* UnlockDialog: unlock_timeout, bounds of time and dialogs
    MaxCopies, MaxLocal,            \* RdpClipboard: bounds of copies on each side ...
    MaxRequests,                    \* ... and of requests
    Displays, Tasks,                \* SpiceSession: displays, transfers of files ...
    MaxKeys, MaxLogins,             \* ... bounds of keystrokes and refused passwords
    Texts                           \* GvncSession: texts of the clipboard

VARIABLES
    component,  \* which of the parts this behaviour is about
    s1, s2, s3, s4, s5, s6, s7, s8, s9, s10, s11, s12, s13, s14, s15

HandlersVars == <<component, s1, s2, s3, s4, s5, s6, s7, s8, s9, s10, s11, s12, s13, s14, s15>>

VncInput == INSTANCE VncInput WITH
    keymap <- s1, viewonly <- s2, pressed_keys <- s3, button_mask <- s4, scroll <- s5,
    server <- s6, user <- s7, Keyvals <- Keyvals, Keycodes <- Keycodes,
    Buttons <- VncButtons, MaxPressed <- MaxPressed

RdpInput == INSTANCE RdpInput WITH
    rfi <- s1, pressed_keys <- s2, server <- s3, user <- s4, junk <- s5,
    Codes <- Codes, Chars <- Chars, Buttons <- RdpButtons, MaxPressed <- MaxPressed

HostKey == INSTANCE HostKey WITH
    win <- s1, tab <- s2, down <- s3, last <- s4, server <- s5, viewonly <- s6,
    grab <- s7, ending <- s8, alone <- s9, odd <- s10, surprise <- s11,
    Tabs <- HeldTabs, MaxHeld <- MaxHeld

Screen == INSTANCE ScreenGeometry WITH
    width <- s1, widget <- s2, scaled <- s3, queued <- s4, stale <- s5, MaxServer <- MaxServer,
    MaxWidget <- MaxWidget

Toolbar == INSTANCE ToolbarState WITH
    startdynres <- s1, vis <- s2, pend <- s3, tabs <- s4, btn <- s5, sens <- s6,
    aligns <- s7, shown <- s8, behind <- s9, stale <- s10, viewodd <- s11,
    Tabs <- BarTabs, Features <- Features

SshAuth == INSTANCE SshAuth WITH
    pc <- s1, ssh <- s2, pwd <- s3, host <- s4, server <- s5, hist <- s6,
    Chains <- SshChains

SshShell == INSTANCE SshShell WITH
    pc <- s1, run <- s2, shell <- s3, data <- s4, idle <- s5, main <- s6, gp <- s7,
    hist <- s8, fault <- s9

X11 == INSTANCE X11Channels WITH
    nodes <- s1, shell <- s2, chan <- s3, open <- s4, hist <- s5, Shells <- Shells,
    MaxChans <- MaxChans

Unlock == INSTANCE UnlockDialog WITH
    now <- s1, password <- s2, timer <- s3, unlocked <- s4, calls <- s5, record <- s6,
    given <- s7, used <- s8, hist <- s9, fault <- s10, Timeout <- UnlockTimeout,
    MaxNow <- MaxNow, MaxUses <- MaxUses

RdpClipboard == INSTANCE RdpClipboard WITH
    clip <- s1, mutex <- s2, main <- s3, thread <- s4, events <- s5, ui <- s6,
    owner <- s7, server <- s8, wire <- s9, copies <- s10, sees <- s11, odd <- s12,
    closed <- s13, fault <- s14, again <- s15, MaxCopies <- MaxCopies,
    MaxLocal <- MaxLocal, MaxRequests <- MaxRequests

Spice == INSTANCE SpiceSession WITH
    session <- s1, asking <- s2, displays <- s3, keys <- s4, files <- s5, dialog <- s6,
    told <- s7, logins <- s8, hist <- s9, fault <- s10, Displays <- Displays,
    Tasks <- Tasks, MaxKeys <- MaxKeys, MaxLogins <- MaxLogins

Gvnc == INSTANCE GvncSession WITH
    widget <- s1, lib <- s2, signal <- s3, asking <- s4, profile <- s5, typed <- s6,
    clipboard <- s7, clipstr <- s8, changed <- s9, sent <- s10, told <- s11,
    keys <- s12, fault <- s13, Texts <- Texts

ASSUME HandlersBounds ==
    /\ MaxPressed \in Nat /\ MaxChans \in Nat
    /\ SshChains \subseteq Seq(SUBSET SshAuth!Methods)
    /\ UnlockTimeout \in Nat /\ MaxNow \in Nat \ {0} /\ MaxUses \in Nat
    /\ MaxCopies \in Nat /\ MaxLocal \in Nat /\ MaxRequests \in Nat
    /\ MaxKeys \in Nat /\ MaxLogins \in Nat
    /\ MaxServer \in Nat /\ MaxWidget \in Nat
    /\ Toolbar!None \notin BarTabs
    /\ Features \in [BarTabs -> [scale : BOOLEAN, dynres : BOOLEAN, viewonly : BOOLEAN]]

HandlersInit ==
    \/ /\ component = "VncInput" /\ VncInput!Init
       /\ s8 = 0 /\ s9 = 0 /\ s10 = 0 /\ s11 = 0 /\ s12 = 0 /\ s13 = 0 /\ s14 = 0 /\ s15 = 0
    \/ /\ component = "RdpInput" /\ RdpInput!Init
       /\ s6 = 0 /\ s7 = 0 /\ s8 = 0 /\ s9 = 0 /\ s10 = 0 /\ s11 = 0 /\ s12 = 0 /\ s13 = 0
       /\ s14 = 0 /\ s15 = 0
    \/ /\ component = "HostKey" /\ HostKey!Init
       /\ s12 = 0 /\ s13 = 0 /\ s14 = 0 /\ s15 = 0
    \/ /\ component = "Screen" /\ Screen!Init
       /\ s6 = 0 /\ s7 = 0 /\ s8 = 0 /\ s9 = 0 /\ s10 = 0 /\ s11 = 0 /\ s12 = 0 /\ s13 = 0
       /\ s14 = 0 /\ s15 = 0
    \/ /\ component = "Toolbar" /\ Toolbar!Init
       /\ s12 = 0 /\ s13 = 0 /\ s14 = 0 /\ s15 = 0
    \/ /\ component = "SshAuth" /\ SshAuth!Init
       /\ s7 = 0 /\ s8 = 0 /\ s9 = 0 /\ s10 = 0 /\ s11 = 0 /\ s12 = 0 /\ s13 = 0 /\ s14 = 0
       /\ s15 = 0
    \/ /\ component = "SshShell" /\ SshShell!Init
       /\ s10 = 0 /\ s11 = 0 /\ s12 = 0 /\ s13 = 0 /\ s14 = 0 /\ s15 = 0
    \/ /\ component = "X11" /\ X11!Init
       /\ s6 = 0 /\ s7 = 0 /\ s8 = 0 /\ s9 = 0 /\ s10 = 0 /\ s11 = 0 /\ s12 = 0 /\ s13 = 0
       /\ s14 = 0 /\ s15 = 0
    \/ /\ component = "Unlock" /\ Unlock!Init
       /\ s11 = 0 /\ s12 = 0 /\ s13 = 0 /\ s14 = 0 /\ s15 = 0
    \/ component = "RdpClipboard" /\ RdpClipboard!Init
    \/ /\ component = "Spice" /\ Spice!Init
       /\ s11 = 0 /\ s12 = 0 /\ s13 = 0 /\ s14 = 0 /\ s15 = 0
    \/ /\ component = "Gvnc" /\ Gvnc!Init
       /\ s14 = 0 /\ s15 = 0

HandlersNext ==
    \/ /\ component = "VncInput" /\ VncInput!Next
       /\ UNCHANGED <<component, s8, s9, s10, s11, s12, s13, s14, s15>>
    \/ /\ component = "RdpInput" /\ RdpInput!Next
       /\ UNCHANGED <<component, s6, s7, s8, s9, s10, s11, s12, s13, s14, s15>>
    \/ component = "HostKey" /\ HostKey!Next /\ UNCHANGED <<component, s12, s13, s14, s15>>
    \/ /\ component = "Screen" /\ Screen!Next
       /\ UNCHANGED <<component, s6, s7, s8, s9, s10, s11, s12, s13, s14, s15>>
    \/ component = "Toolbar" /\ Toolbar!Next /\ UNCHANGED <<component, s12, s13, s14, s15>>
    \/ /\ component = "SshAuth" /\ SshAuth!Next
       /\ UNCHANGED <<component, s7, s8, s9, s10, s11, s12, s13, s14, s15>>
    \/ /\ component = "SshShell" /\ SshShell!Next
       /\ UNCHANGED <<component, s10, s11, s12, s13, s14, s15>>
    \/ /\ component = "X11" /\ X11!Next
       /\ UNCHANGED <<component, s6, s7, s8, s9, s10, s11, s12, s13, s14, s15>>
    \/ component = "Unlock" /\ Unlock!Next /\ UNCHANGED <<component, s11, s12, s13, s14, s15>>
    \/ component = "RdpClipboard" /\ RdpClipboard!Next /\ UNCHANGED component
    \/ component = "Spice" /\ Spice!Next /\ UNCHANGED <<component, s11, s12, s13, s14, s15>>
    \/ component = "Gvnc" /\ Gvnc!Next /\ UNCHANGED <<component, s14, s15>>

HandlersSpec == HandlersInit /\ [][HandlersNext]_HandlersVars

-----------------------------------------------------------------------------

(* Values of the constants.                                               *)

\* The methods a server asks for, one set for each round of the authentication: a value of
\* SshChains.
TriedChains ==
    {<<>>, <<{"password"}>>, <<{"password", "kbdint"}>>, <<{"publickey", "password"}>>,
     <<{"gssapi", "kbdint"}>>, <<{"publickey"}, {"kbdint"}>>, <<{"password"}, {"publickey"}>>,
     <<{"password", "kbdint"}, {"kbdint"}>>, <<{"publickey"}, {"password", "kbdint"}>>,
     <<{"kbdint"}, {"hostbased"}>>}

\* A tab that can be scaled in both ways, and one that cannot.
ToolbarFeatures ==
    "a" :> [scale |-> TRUE, dynres |-> TRUE, viewonly |-> TRUE]
    @@ "b" :> [scale |-> FALSE, dynres |-> FALSE, viewonly |-> TRUE]

\* Every component keeps its variables in their types.
HandlersTyped ==
    /\ component = "VncInput" => VncInput!TypeOK
    /\ component = "RdpInput" => RdpInput!TypeOK
    /\ component = "HostKey" => HostKey!TypeOK
    /\ component = "Screen" => Screen!TypeOK
    /\ component = "Toolbar" => Toolbar!TypeOK
    /\ component = "SshAuth" => SshAuth!TypeOK
    /\ component = "SshShell" => SshShell!TypeOK
    /\ component = "X11" => X11!TypeOK
    /\ component = "Unlock" => Unlock!TypeOK
    /\ component = "RdpClipboard" => RdpClipboard!TypeOK
    /\ component = "Spice" => Spice!TypeOK
    /\ component = "Gvnc" => Gvnc!TypeOK

\* What the server takes to be pressed is what the plugin remembers, or the user holds: the
\* loss of the focus releases it all, but for the keys whose release the host key, a shortcut
\* to another tab or the view-only mode has kept from it.  The host key itself stays here, and
\* pressed alone, only then, it toggles the grab of the keyboard.
NothingStuck ==
    /\ component = "VncInput" => VncInput!KeysListed /\ VncInput!ButtonsHeld
    /\ component = "RdpInput" => RdpInput!KeysListed /\ RdpInput!ButtonsHeld
    /\ component = "HostKey" =>
          HostKey!HostKeyStays /\ HostKey!HeldOrOdd /\ HostKey!GrabAsAsked

\* The part of the screen that is drawn again covers what has changed on the server, the
\* pointer goes where it is seen, the wheel turns as far as the user turned it.  The tool bar
\* says how the tab in view is scaled, and a frame keeps its aspect ratio, or none does.
ScreenRight ==
    /\ component = "Screen" =>
          /\ Screen!DrawnCovers /\ Screen!PointerReturns
          /\ Screen!WheelArrives /\ Screen!PrimaryAtOrigin
    /\ component = "Toolbar" =>
          /\ Toolbar!BarFollows /\ Toolbar!TogglesTell /\ Toolbar!ModePossible
          /\ Toolbar!ViewonlyTold /\ Toolbar!FrameRight

\* A session is open only for a user the server accepted on a host the user agreed to, after
\* few attempts, and a shell that ended is used again, or waits, or is taken to be open, only
\* where it is known to.  A channel of X11 never writes to a socket of another.  What is locked
\* by a password is used only by those who gave it a short while ago.
LoginsSound ==
    /\ component = "SshAuth" =>
          SshAuth!SuccessMeansAccepted /\ SshAuth!FewAttempts /\ SshAuth!SessionThere
    /\ component = "SshShell" => SshShell!FaultKnown /\ SshShell!HungKnown /\ SshShell!EndIsTold
    /\ component = "X11" => X11!OwnSockets /\ X11!NodeFound
    /\ component = "Unlock" => Unlock!LetThrough /\ Unlock!DialogThere

\* A session of RDP, SPICE or GVNC is told to be open once and to be closed once, a text of
\* the clipboard does not come back to where it was copied, no handler waits for itself, and
\* nothing that was freed is used, a paste waits or an end goes untold only where it is known
\* to.
SessionsSound ==
    /\ component = "RdpClipboard" =>
          /\ RdpClipboard!NoSelfLock /\ RdpClipboard!BusyEnds /\ RdpClipboard!KindsKnown
          /\ RdpClipboard!CloseAborts /\ RdpClipboard!NoEcho
    /\ component = "Spice" =>
          /\ Spice!ClosedOnce /\ Spice!OpenedOnce /\ Spice!EndTold
          /\ Spice!FreedUse /\ Spice!DialogLasts
    /\ component = "Gvnc" =>
          Gvnc!NoEcho /\ Gvnc!FaultsKnown /\ Gvnc!ToldOnce /\ Gvnc!KeysArrive
===============================================================================
