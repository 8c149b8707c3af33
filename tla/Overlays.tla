------------------------------ MODULE Overlays ------------------------------
(***************************************************************************)
(* internal/tui/foreground.go, colorpicker.go and pattern_selector.go: the *)
(* help text, the colour picker and the pattern list, of which one is in   *)
(* front of the game.  The three models are the record f.  The arrow keys  *)
(* do what h, j, k and l do and are left out.                              *)
(***************************************************************************)
EXTENDS Integers, Sequences

CONSTANTS MaxChannel,   \* 255
          Coarse,       \* coarseAdjustment, 51
          ViewHeight    \* viewHeight of the list, 20

ASSUME PickerAssumption == MaxChannel \in Nat /\ Coarse \in 1 .. MaxChannel /\ ViewHeight \in Nat \ {0}

NewPicker == [rgb |-> [i \in 1 .. 3 |-> MaxChannel], slider |-> 0]

NewSelector(white) == [selected |-> 0, offset |-> 0, color |-> white]

InitForeground(white) ==
    [type |-> "Help", picker |-> NewPicker, selector |-> NewSelector(white), color |-> white]

-----------------------------------------------------------------------------
\* ColorPickerModel.Update.  Mutant: a step passes the ends.
adjustedPast(v, step) == v + step
adjusted(v, step) == IF v + step < 0 THEN 0
                     ELSE IF v + step > MaxChannel THEN MaxChannel ELSE v + step

StepOf == [h |-> -1, l |-> 1, H |-> -Coarse, L |-> Coarse]

pickerKey(p, k) ==
    CASE k = "k" -> [p EXCEPT !.slider = IF @ = 0 THEN 2 ELSE @ - 1]
      [] k = "j" -> [p EXCEPT !.slider = IF @ = 2 THEN 0 ELSE @ + 1]
      [] k \in DOMAIN StepOf -> [p EXCEPT !.rgb[p.slider + 1] = adjusted(@, StepOf[k])]
      [] OTHER -> p

-----------------------------------------------------------------------------
\* PatternSelectorModel: moveUp and moveDown over a list of n patterns.
\* Mutant: the list does not scroll down.
scrolledDownNot(s) == s.offset
scrolledDown(s) == IF s.selected >= s.offset + ViewHeight THEN s.selected - ViewHeight + 1
                                                          ELSE s.offset

scrolledUp(s) == IF s.selected < s.offset THEN s.selected ELSE s.offset

selectorKey(s, k, n) ==
    CASE k = "k" /\ s.selected > 0 ->
             LET up == [s EXCEPT !.selected = @ - 1] IN [up EXCEPT !.offset = scrolledUp(up)]
      [] k = "j" /\ s.selected < n - 1 ->
             LET down == [s EXCEPT !.selected = @ + 1] IN [down EXCEPT !.offset = scrolledDown(down)]
      [] OTHER -> s

\* The rows View shows of the list.
visibleRange(s, n) ==
    s.offset .. (IF s.offset + ViewHeight < n THEN s.offset + ViewHeight ELSE n) - 1

-----------------------------------------------------------------------------
\* foregroundModel.Update for a key: the overlay the key opens, then its model.
opened(f, k) ==
    CASE k = "?" -> [f EXCEPT !.type = "Help"]
      [] k = "ctrl+p" -> [f EXCEPT !.type = "ColorPicker"]
      [] k = "ctrl+n" -> [f EXCEPT !.type = "PatternSelector", !.selector.color = f.color]
      [] OTHER -> f

foregroundKey(f, k, n) ==
    LET h == opened(f, k)
    IN CASE h.type = "ColorPicker" -> [h EXCEPT !.picker = pickerKey(@, k)]
         [] h.type = "PatternSelector" -> [h EXCEPT !.selector = selectorKey(@, k, n)]
         [] OTHER -> h

\* The message its tea.Cmd returns on enter: a set of none or one.
foregroundSends(f, k, n) ==
    CASE k = "enter" /\ f.type = "ColorPicker" -> {[type |-> "color", color |-> f.picker.rgb]}
      [] k = "enter" /\ f.type = "PatternSelector" /\ n > 0 ->
             {[type |-> "pattern", number |-> f.selector.selected + 1]}
      [] OTHER -> {}

SetCurrentColor(f, color) == [f EXCEPT !.color = color, !.selector.color = color]

=============================================================================
