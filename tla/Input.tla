-------------------------------- MODULE Input --------------------------------
(***************************************************************************)
(* Keys and who gets them (src/src/display.c): the lists of bindings of    *)
(* the window and of joysticks that come and go, the groups of keys that   *)
(* controllers and hotkeys register (maple/controller.c, hotkeys.c), the   *)
(* hooks of keyboards (maple/kbd.c), and the rescan that follows a new     *)
(* joystick (drivers/joy_linux.c).                                         *)
(*                                                                         *)
(* A key symbol stands for its key code; pressure is left out.  An axis of *)
(* a controller is a pair of buttons of which one is pressed at most.      *)
(***************************************************************************)
EXTENDS Integers, FiniteSets, SequencesExt

CONSTANTS
  Key,            \* the keys of the window and of joysticks
  SourceOf,       \* the device of each key; "root" is the window
  Pads,           \* controllers, in the order of their ports
  Buttons,        \* of a controller, and those of the hotkeys, in their order
  Axis,           \* the two buttons that are the ends of an axis
  Bindings,       \* for each owner and button the lists of keys it may be given
  KeyboardKeys    \* the keys a keyboard has room for (6)

VARIABLES
  plugged,        \* input_drivers, and the window
  keymap,         \* the bindings of each key, the latest first
  config,         \* the lists in the groups of controllers and of the hotkeys
  attached,       \* the controllers that are attached
  pressed,        \* condition of a controller: its buttons that are down
  hooked,         \* keyhooks: the keyboard is attached
  typed,          \* condition of the keyboard: the keys that are down
  focused,        \* display_focused
  held,           \* the keys that are down in the host
  missed          \* history: a release was not, or will not be, delivered

vars == <<plugged, keymap, config, attached, pressed, hooked, typed, focused, held, missed>>

HOT == "hotkeys"
ROOT == "root"
NOKEY == "none"
Source == {SourceOf[k] : k \in Key}
Pad == ToSet(Pads)
Owner == Pad \cup {HOT}
KeysOf(s) == {k \in Key : SourceOf[k] = s}
Places == 1 .. KeyboardKeys

-----------------------------------------------------------------------------
(* Definitions marked "Faulty" are variants of the one that follows; the   *)
(* specification does not use them.  They show that a property can fail.   *)

(* input_register_key: an entry in front of the list of every key that is  *)
(* of a device that is there.                                              *)
RegisterKey(map, there, o, b, keys) ==
  LET Add(acc, k) ==
        IF SourceOf[k] \in there THEN [acc EXCEPT ![k] = <<<<o, b>>>> \o @] ELSE acc
  IN  FoldLeft(Add, map, keys)

(* input_unregister_key: the first entry that is the same.                 *)
UnregisterKey(map, there, o, b, keys) ==
  LET Take(acc, k) ==
        IF SourceOf[k] \in there THEN [acc EXCEPT ![k] = Remove(@, <<o, b>>)] ELSE acc
  IN  FoldLeft(Take, map, keys)

(* input_register_keygroup, input_unregister_keygroup                      *)
RegisterGroup(map, there, o) ==
  FoldLeft(LAMBDA acc, b : RegisterKey(acc, there, o, b, config[o][b]), map, Buttons)
UnregisterGroup(map, there, o) ==
  FoldLeft(LAMBDA acc, b : UnregisterKey(acc, there, o, b, config[o][b]), map, Buttons)

(* Faulty: the bindings that are there are not taken away first.           *)
ReattachTwice(map, there) ==
  FoldLeft(LAMBDA acc, p : IF p \in attached THEN RegisterGroup(acc, there, p) ELSE acc,
           map, Pads)

(* maple_reattach_all: one device after the other.                         *)
Reattach(map, there) ==
  FoldLeft(LAMBDA acc, p :
             IF p \in attached
             THEN RegisterGroup(UnregisterGroup(acc, there, p), there, p)
             ELSE acc,
           map, Pads)

Init ==
  /\ plugged = {ROOT}
  /\ config = [o \in Owner |-> [b \in ToSet(Buttons) |-> <<>>]]
  /\ keymap = [k \in Key |-> <<>>]
  /\ attached = {}
  /\ pressed = [p \in Pad |-> {}]
  /\ hooked = FALSE
  /\ typed = [i \in Places |-> NOKEY]
  /\ focused = TRUE
  /\ held = {}
  /\ missed = FALSE

(* linux_joystick_scan and what gtk_loop_check_input does when it found a  *)
(* joystick.  The hotkeys are not registered again.                        *)
Plug(s) ==
  /\ s \notin plugged
  /\ plugged' = plugged \cup {s}
  /\ keymap' = Reattach(keymap, plugged')
  /\ UNCHANGED <<config, attached, pressed, hooked, typed, focused, held, missed>>

(* linux_joystick_callback on a hangup: input_unregister_device frees the  *)
(* lists with what is in them.                                             *)
Unplug(s) ==
  /\ s \in plugged \ {ROOT}
  /\ plugged' = plugged \ {s}
  /\ keymap' = [k \in Key |-> IF SourceOf[k] = s THEN <<>> ELSE keymap[k]]
  /\ held' = held \ KeysOf(s)
  /\ missed' = (missed \/ held' # held)
  /\ UNCHANGED <<config, attached, pressed, hooked, typed, focused>>

(* A new controller: controller_new, controller_attach.                    *)
Attach(p) ==
  /\ p \notin attached
  /\ attached' = attached \cup {p}
  /\ pressed' = [pressed EXCEPT ![p] = {}]
  /\ keymap' = RegisterGroup(keymap, plugged, p)
  /\ UNCHANGED <<plugged, config, hooked, typed, focused, held, missed>>

(* controller_detach                                                       *)
Detach(p) ==
  /\ p \in attached
  /\ attached' = attached \ {p}
  /\ keymap' = UnregisterGroup(keymap, plugged, p)
  /\ UNCHANGED <<plugged, config, pressed, hooked, typed, focused, held, missed>>

(* A new keyboard, and keyboard_attach; keyboard_detach.                   *)
AttachKeyboard ==
  /\ ~hooked
  /\ hooked' = TRUE
  /\ typed' = [i \in Places |-> NOKEY]
  /\ UNCHANGED <<plugged, keymap, config, attached, pressed, focused, held, missed>>

DetachKeyboard ==
  /\ hooked
  /\ hooked' = FALSE
  /\ UNCHANGED <<plugged, keymap, config, attached, pressed, typed, focused, held, missed>>

(* lxdream_set_config_value, which calls input_keygroup_changed while the  *)
(* device is attached.                                                     *)
SetConfig(o, b, keys) ==
  /\ keys # config[o][b]
  /\ config' = [config EXCEPT ![o][b] = keys]
  /\ keymap' =
       IF o = HOT \/ o \in attached
       THEN RegisterKey(UnregisterKey(keymap, plugged, o, b, config[o][b]),
                        plugged, o, b, keys)
       ELSE keymap
  /\ missed' = (missed \/ held # {})
  /\ UNCHANGED <<plugged, attached, pressed, hooked, typed, focused, held>>

-----------------------------------------------------------------------------
(* controller_key_callback.                                                *)
Down(now, b) == IF b \in Axis THEN (now \ Axis) \cup {b} ELSE now \cup {b}
Up(now, b) == IF b \in Axis THEN now \ Axis ELSE now \ {b}

Calls(Effect(_, _), k) ==
  [p \in Pad |->
     FoldLeft(LAMBDA now, e : IF e[1] = p THEN Effect(now, e[2]) ELSE now,
              pressed[p], keymap[k])]

FirstWith(S) ==
  SelectInSeq(typed, LAMBDA x : x \in S)

(* keyboard_key_down: the first place that holds the key or none.          *)
Type(k) ==
  LET i == FirstWith({k, NOKEY}) IN IF i = 0 THEN typed ELSE [typed EXCEPT ![i] = k]

(* Faulty: the keys behind do not move up.                                 *)
UntypeLeavesHole(k) ==
  LET i == FirstWith({k}) IN IF i = 0 THEN typed ELSE [typed EXCEPT ![i] = NOKEY]

(* keyboard_key_up: the keys behind it move up.                            *)
Untype(k) ==
  LET i == FirstWith({k})
  IN  IF i = 0 THEN typed
      ELSE [j \in Places |-> IF j < i THEN typed[j]
                             ELSE IF j < KeyboardKeys THEN typed[j + 1]
                             ELSE NOKEY]

ToKeyboard(k) == hooked /\ SourceOf[k] = ROOT

(* input_event_keydown, for a key that is pressed or repeats; a device     *)
(* that is gone has no keys.                                               *)
KeyDown(k) ==
  /\ SourceOf[k] \in plugged
  /\ held' = held \cup {k}
  /\ IF focused
     THEN /\ pressed' = Calls(Down, k)
          /\ typed' = IF ToKeyboard(k) THEN Type(k) ELSE typed
     ELSE UNCHANGED <<pressed, typed>>
  /\ UNCHANGED <<plugged, keymap, config, attached, hooked, focused, missed>>

(* input_event_keyup                                                       *)
KeyUp(k) ==
  /\ k \in held
  /\ held' = held \ {k}
  /\ IF focused
     THEN /\ pressed' = Calls(Up, k)
          /\ typed' = IF ToKeyboard(k) THEN Untype(k) ELSE typed
          /\ UNCHANGED missed
     ELSE /\ missed' = TRUE
          /\ UNCHANGED <<pressed, typed>>
  /\ UNCHANGED <<plugged, keymap, config, attached, hooked, focused>>

(* display_set_focused                                                     *)
Focus(f) ==
  /\ focused' = f
  /\ UNCHANGED <<plugged, keymap, config, attached, pressed, hooked, typed, held, missed>>

Next ==
  \/ \E s \in Source : Plug(s) \/ Unplug(s)
  \/ \E p \in Pad : Attach(p) \/ Detach(p)
  \/ AttachKeyboard \/ DetachKeyboard
  \/ \E o \in Owner, b \in ToSet(Buttons) : \E keys \in Bindings[o][b] : SetConfig(o, b, keys)
  \/ \E k \in Key : KeyDown(k) \/ KeyUp(k)
  \/ \E f \in BOOLEAN : Focus(f)

Spec == Init /\ [][Next]_vars

-----------------------------------------------------------------------------
Times(seq, x) == Cardinality({i \in DOMAIN seq : seq[i] = x})

(* Whatever was attached, plugged in, taken away and configured in between,*)
(* a key leads to each controller as often as the controller's group names *)
(* it: no binding of a controller that is gone is left, none is doubled by *)
(* a joystick that comes back, none is missing.  (Hotkeys on a joystick do *)
(* not come back with it.)                                                 *)
(* (input_register_key, input_unregister_key, maple_reattach_all)          *)
BindingsTrue ==
  \A k \in Key, o \in Owner, b \in ToSet(Buttons) :
    LET there == SourceOf[k] \in plugged /\ o \in attached \cup {HOT}
        times == Times(keymap[k], <<o, b>>)
    IN  IF o = HOT /\ SourceOf[k] # ROOT
        THEN times <= Times(config[o][b], k)
        ELSE times = IF there THEN Times(config[o][b], k) ELSE 0

(* As long as no release got lost, a button that is pressed has a key that *)
(* is held, and the keyboard shows keys that are held.                     *)
(* (controller_key_callback, keyboard_input_hook)                          *)
PressedIsHeld ==
  ~missed =>
    /\ \A p \in attached : \A b \in pressed[p] : held \cap ToSet(config[p][b]) # {}
    /\ hooked => \A i \in Places : typed[i] \in held \cup {NOKEY}

(* The keys of a keyboard come without holes, and no key twice: a key that *)
(* is released is gone.  (keyboard_key_down, keyboard_key_up)              *)
TypedTrue ==
  \A i, j \in Places :
    i < j => /\ typed[i] = NOKEY => typed[j] = NOKEY
             /\ typed[i] # NOKEY => typed[j] # typed[i]

InputTrue == BindingsTrue /\ PressedIsHeld /\ TypedTrue
=============================================================================
